---------------------------- MODULE Spec2Model ----------------------------
(***************************************************************************)
(* A model of meteo-auditor-cf: the hourly merge of station and reanalysis *)
(* series (fetchers.ts), the thunder annotation (thunder.ts), the warnings *)
(* filter (warnings.ts), the place resolver (geocode.ts) and the request   *)
(* handler GET of routes/api/analisar.                                     *)
(*                                                                         *)
(* Instants are milliseconds, as in the code.  TLC's integers are 32 bits  *)
(* wide, so an instant is counted from 00:00 UTC of the day originDay      *)
(* (days since 1970-01-01) and not from 1970: the origin is a whole day,   *)
(* so order, differences and hour alignment are those of the real epochs.  *)
(***************************************************************************)
EXTENDS Integers, Sequences, FiniteSets, TLC

VARIABLES
  pc,              \* position of the operation being executed
  originDay,       \* day (since 1970-01-01) the instants are counted from
  startYMD,        \* generateEpochsForLocalRange: start date [y, m, d]
  endYMD,          \* generateEpochsForLocalRange: end date [y, m, d]
  offsetSeconds,   \* UTC offset in seconds
  t,               \* generateEpochsForLocalRange: the loop variable
  endEpoch,        \* generateEpochsForLocalRange: the loop's upper limit
  timelineEpochs,  \* sequence of epochs (the timeline / the loop's out)
  meteostatIdx,    \* Map epoch -> index into the station arrays
  meteostat,       \* station series [time, ws, wpgt, prcp, available, size]
  openMap,         \* Map epoch -> OpenMeteoItem
  opts,            \* mergeByEpoch's opts: [given, useOpenMeteoFallback]
  merged,          \* sequence of HourlyMerged records
  entries,         \* metarHoursMap: the reports [raw, epochMs]
  byHour,          \* metarHoursMap: Map epochHour -> ThunderFlag
  ei,              \* metarHoursMap: index of the next report of the loop
  feed,            \* the answer of the warnings feed
  distrito,        \* fetchIpmaWarnings: the target region
  intervalStartMs, \* start of the requested interval (startUTC)
  intervalEndMs,   \* end of the requested interval (endUTC)
  warnings,        \* the warnings returned
  q,               \* resolvePlace: the name asked for
  geo,             \* resolvePlace: the answer of the geocoding upstream
  place,           \* the place resolved [name, lat, lon, admin1]
  netCalls,        \* resolvePlace: the network calls issued so far
  req,             \* GET: the query parameters of the request
  serverOffset,    \* UTC offset in seconds of the server's own time zone
  notes,           \* GET: the notes of the response
  openmeteo,       \* GET: the OpenMeteoResult
  stationDone,     \* GET: fetchMeteostatHourly has settled
  openDone,        \* GET: fetchOpenMeteoHourly has settled
  last24h,         \* GET: the interval ends within the last 24 hours
  nowUTC,          \* GET: new Date(), read once after the merge
  thunderUrls,     \* GET: which thunder upstreams were asked
  countByHour,     \* GET: Map epochHour -> lightning count
  icao,            \* GET: the nearest airport
  response,        \* GET: the response returned
  calls,           \* GET: the requests sent so far, counted per upstream URL
  bucket,          \* the report bucket R2_REPORTS: [bound, objects]
  doc,             \* analisar.docx GET: the document built
  docResponse,     \* analisar.docx GET: the response returned
  upstream         \* the answers the upstreams give to the fetcher called

vars == <<pc, originDay, startYMD, endYMD, offsetSeconds, t, endEpoch,
          timelineEpochs, meteostatIdx, meteostat, openMap, opts, merged,
          entries, byHour, ei, feed, distrito, intervalStartMs, intervalEndMs,
          warnings, q, geo, place, netCalls, req, serverOffset, notes,
          openmeteo, stationDone, openDone, last24h, nowUTC, thunderUrls,
          countByHour,
          icao, response, calls, bucket, doc, docResponse, upstream>>

---------------------------------------------------------------------------
(* Generic helpers *)

Range(s) == {s[i] : i \in DOMAIN s}

Max2(a, b) == IF a >= b THEN a ELSE b

Min2(a, b) == IF a <= b THEN a ELSE b

---------------------------------------------------------------------------
(* JavaScript values that may be null, NaN, a non-numeric string or a      *)
(* number.  A number is kept in hundredths (1235 stands for 12.35).        *)

Null == [k |-> "null"]

NaN == [k |-> "nan"]

Str == [k |-> "str"]

\* an empty string or one of white space only
Blank == [k |-> "blank"]

Num(n) == [k |-> "num", v |-> n]

\* x != null  (loose inequality: false for null and undefined only)
NotNull(x) == x.k # "null"

\* Number(x)
ToNumber(x) ==
  IF x.k = "str" THEN NaN ELSE IF x.k = "blank" THEN Num(0) ELSE x

\* Math.round(v * 10) / 10 for v in hundredths: Math.round rounds a half up
MathRound10(n) == ((n + 5) \div 10) * 10

\* round1: null for null and NaN; a non-numeric string is not NaN to
\* Number.isNaN and becomes NaN in the multiplication
round1(v) ==
  IF v.k = "null" \/ v.k = "nan" THEN Null
  ELSE IF v.k = "str" THEN NaN
  ELSE IF v.k = "blank" THEN Num(0)
  ELSE Num(MathRound10(v.v))

---------------------------------------------------------------------------
(* Calendar arithmetic of Date.UTC and of the Date getters *)

HourMs == 3600000

DayMs == 86400000

\* the value standing for a NaN instant (outside every instant formed)
NaNEpoch == -2000000000

\* days since 1970-01-01 of the civil date y-m-d (m = 1..12); linear in d,
\* as Date.UTC lets the day run over the month's end
DaysFromCivil(y, m, d) ==
  LET yy  == IF m <= 2 THEN y - 1 ELSE y
      era == yy \div 400
      yoe == yy - era * 400
      mp  == IF m > 2 THEN m - 3 ELSE m + 9
      doy == (153 * mp + 2) \div 5 + d - 1
      doe == yoe * 365 + yoe \div 4 - yoe \div 100 + doy
  IN era * 146097 + doe - 719468

\* the civil date [y, m, d] of a day counted from 1970-01-01
CivilFromDays(z) ==
  LET zz  == z + 719468
      era == zz \div 146097
      doe == zz - era * 146097
      yoe == (doe - doe \div 1460 + doe \div 36524 - doe \div 146096) \div 365
      doy == doe - (365 * yoe + yoe \div 4 - yoe \div 100)
      mp  == (5 * doy + 2) \div 153
      d   == doy - (153 * mp + 2) \div 5 + 1
      m   == IF mp < 10 THEN mp + 3 ELSE mp - 9
      y   == yoe + era * 400
  IN [y |-> IF m <= 2 THEN y + 1 ELSE y, m |-> m, d |-> d]

\* Date.UTC(y, m - 1, d, h, min, 0), counted from originDay
DateUTC(y, m, d, h, min) ==
  ((DaysFromCivil(y, m, d) - originDay) * 24 + h) * HourMs + min * 60000

\* the day (since 1970-01-01) and the millisecond of the day of an instant
DayOf(epochMs) == originDay + epochMs \div DayMs

MsOfDay(epochMs) == epochMs % DayMs

---------------------------------------------------------------------------
(* Intl.DateTimeFormat with timeZone 'Europe/Lisbon': WET (UTC+0), and     *)
(* WEST (UTC+1) from the last Sunday of March 01:00 UTC to the last        *)
(* Sunday of October 01:00 UTC.                                            *)

\* the last Sunday of a 31-day month (1970-01-01 was a Thursday)
LastSunday(y, m) ==
  LET last == DaysFromCivil(y, m, 31)
  IN last - ((last + 4) % 7)

LisbonOffsetSeconds(epochMs) ==
  LET day == DayOf(epochMs)
      ms  == MsOfDay(epochMs)
      y   == CivilFromDays(day).y
      s   == LastSunday(y, 3)
      e   == LastSunday(y, 10)
      afterStart == day > s \/ (day = s /\ ms >= HourMs)
      beforeEnd  == day < e \/ (day = e /\ ms < HourMs)
  IN IF afterStart /\ beforeEnd THEN 3600 ELSE 0

\* formatToParts throws a RangeError on an invalid Date
toISOInTZThrows(epochMs) == epochMs = NaNEpoch

\* toISOInTZ(epochMs, 'Europe/Lisbon'): the local wall-clock components and
\* the offset in minutes, as the string holds them
toISOInTZ(epochMs) ==
  LET off   == LisbonOffsetSeconds(epochMs)
      local == epochMs + off * 1000
      c     == CivilFromDays(DayOf(local))
      ms    == MsOfDay(local)
  IN [y |-> c.y, m |-> c.m, d |-> c.d,
      H |-> ms \div HourMs,
      Min |-> (ms % HourMs) \div 60000,
      S |-> (ms % 60000) \div 1000,
      offsetMinutes |-> off \div 60]

---------------------------------------------------------------------------
(* mergeByEpoch *)

\* arr[i] ?? null
At(arr, i) == IF i \in DOMAIN arr THEN arr[i] ELSE Null

\* makeIndexMap: a later index of the same epoch replaces an earlier one
makeIndexMap(epochs) ==
  [e \in Range(epochs) |->
     CHOOSE i \in DOMAIN epochs :
       epochs[i] = e /\ \A j \in DOMAIN epochs : epochs[j] = e => j <= i]

\* opts left out by the caller
NoOpts == [given |-> FALSE, useOpenMeteoFallback |-> FALSE]

UseOMAlways(o) == TRUE

\* !!opts?.useOpenMeteoFallback
UseOM(o) == o.given /\ o.useOpenMeteoFallback

\* one field of one record: [val, src] by the two-branch if / else if;
\* conv is round1 for wind and gust and Number for precipitation
MergeFieldOpenFirst(ms, hasOm, om, useOM, isRound) ==
  LET conv(x) == IF isRound THEN round1(x) ELSE ToNumber(x)
  IN IF useOM /\ hasOm /\ NotNull(om)
       THEN [val |-> conv(om), src |-> "open-meteo"]
     ELSE IF NotNull(ms)
       THEN [val |-> conv(ms), src |-> "meteostat"]
     ELSE [val |-> Null, src |-> "null"]

MergeField(ms, hasOm, om, useOM, isRound) ==
  LET conv(x) == IF isRound THEN round1(x) ELSE ToNumber(x)
  IN IF NotNull(ms)
       THEN [val |-> conv(ms), src |-> "meteostat"]
     ELSE IF useOM /\ hasOm /\ NotNull(om)
       THEN [val |-> conv(om), src |-> "open-meteo"]
     ELSE [val |-> Null, src |-> "null"]

\* the body of the loop: the record pushed for one epoch
MergeRecord(epoch, msIdx, ms, om, o) ==
  LET hasMi == epoch \in DOMAIN msIdx
      hasOm == epoch \in DOMAIN om
      ms_ws   == IF hasMi THEN At(ms.ws, msIdx[epoch]) ELSE Null
      ms_wpgt == IF hasMi THEN At(ms.wpgt, msIdx[epoch]) ELSE Null
      ms_prcp == IF hasMi THEN At(ms.prcp, msIdx[epoch]) ELSE Null
      omi  == IF hasOm THEN om[epoch]
              ELSE [epoch |-> epoch, wind_kmh |-> Null, gust_kmh |-> Null,
                    precip_mm |-> Null]
      w == MergeField(ms_ws, hasOm, omi.wind_kmh, UseOM(o), TRUE)
      g == MergeField(ms_wpgt, hasOm, omi.gust_kmh, UseOM(o), TRUE)
      p == MergeField(ms_prcp, hasOm, omi.precip_mm, UseOM(o), FALSE)
  IN [time |-> toISOInTZ(epoch),
      wind_kmh |-> w.val, gust_kmh |-> g.val, precip_mm |-> p.val,
      sources |-> [wind |-> w.src, gust |-> g.src, precip |-> p.src]]

RECURSIVE mergeLoop(_, _, _, _, _, _, _)
mergeLoop(i, out, tl, msIdx, ms, om, o) ==
  IF i > Len(tl) THEN [threw |-> FALSE, out |-> out]
  ELSE IF toISOInTZThrows(tl[i]) THEN [threw |-> TRUE, out |-> <<>>]
  ELSE mergeLoop(i + 1, Append(out, MergeRecord(tl[i], msIdx, ms, om, o)),
                 tl, msIdx, ms, om, o)

RECURSIVE mergeLoopSkipAbsent(_, _, _, _, _, _, _)
mergeLoopSkipAbsent(i, out, tl, msIdx, ms, om, o) ==
  IF i > Len(tl) THEN [threw |-> FALSE, out |-> out]
  ELSE IF toISOInTZThrows(tl[i]) THEN [threw |-> TRUE, out |-> <<>>]
  ELSE mergeLoopSkipAbsent(i + 1,
         IF tl[i] \in DOMAIN msIdx \/ tl[i] \in DOMAIN om
           THEN Append(out, MergeRecord(tl[i], msIdx, ms, om, o))
           ELSE out,
         tl, msIdx, ms, om, o)

mergeByEpochSkipAbsent(tl, msIdx, ms, om, o) ==
  mergeLoopSkipAbsent(1, <<>>, tl, msIdx, ms, om, o)

\* mergeByEpoch: the records in timeline order; threw when toISOInTZ throws
\* its RangeError at a NaN epoch
mergeByEpoch(tl, msIdx, ms, om, o) == mergeLoop(1, <<>>, tl, msIdx, ms, om, o)

---------------------------------------------------------------------------
(* Variable groups and their values while an operation does not use them *)

timelineVars == <<startYMD, endYMD, t, endEpoch>>

mergeVars == <<meteostatIdx, meteostat, openMap, opts, merged>>

NoDate == [y |-> 0, m |-> 0, d |-> 0]

NoSeries == [time |-> <<>>, ws |-> <<>>, wpgt |-> <<>>, prcp |-> <<>>,
             available |-> FALSE, size |-> 0]

IdleTimeline ==
  /\ startYMD = NoDate /\ endYMD = NoDate /\ t = 0 /\ endEpoch = 0

IdleMerge ==
  /\ meteostatIdx = << >> /\ meteostat = NoSeries /\ openMap = << >>
  /\ opts = NoOpts /\ merged = << >>

metarVars == <<entries, byHour, ei>>

IdleMetar == entries = << >> /\ byHour = << >> /\ ei = 0

warnVars == <<feed, distrito, intervalStartMs, intervalEndMs, warnings>>

NoFeed == [kind |-> "none", items |-> << >>]

IdleWarn ==
  /\ feed = NoFeed /\ distrito = << >> /\ intervalStartMs = 0
  /\ intervalEndMs = 0 /\ warnings = << >>

resolveVars == <<q, geo, place, netCalls>>

NoAnswer == [kind |-> "none"]

NoPlace == [name |-> << >>, lat |-> Null, lon |-> Null, admin1 |-> << >>]

IdleResolve == q = << >> /\ geo = NoAnswer /\ place = NoPlace /\ netCalls = 0

handlerVars == <<req, serverOffset, notes, openmeteo, stationDone, openDone,
                 last24h, nowUTC, thunderUrls, countByHour, icao, response,
                 calls, bucket, doc, docResponse, upstream>>

NoOpen == [url |-> "", available |-> FALSE, items |-> << >>,
           utc_offset_seconds |-> 0, size |-> 0, usedArchiveFallback |-> FALSE]

NoUrls == [ipma_dea |-> FALSE, ogimet |-> FALSE, noaa_adds |-> FALSE]

NoResponse == [status |-> 0]

\* the URLs the handler and its fetchers send requests to
Upstreams ==
  {"geocoding", "point", "nearby", "stations.hourly", "era5", "archive",
   "lightning.last24h", "lightning.observations", "ogimet", "noaa", "warnings"}

NoCalls == [u \in Upstreams |-> 0]

\* n more requests sent to the URL u
Asked(c, u, n) == [c EXCEPT ![u] = @ + n]

\* platform.env.R2_REPORTS is not bound
NoBucket == [bound |-> FALSE, objects |-> << >>]

NoDoc == [built |-> FALSE]

IdleHandler ==
  /\ req = NoAnswer /\ serverOffset = 0 /\ notes = << >> /\ openmeteo = NoOpen
  /\ stationDone = FALSE /\ openDone = FALSE /\ last24h = FALSE /\ nowUTC = 0
  /\ thunderUrls = NoUrls /\ countByHour = << >> /\ icao = ""
  /\ response = NoResponse /\ calls = NoCalls
  /\ bucket = NoBucket /\ doc = NoDoc /\ docResponse = NoResponse
  /\ upstream = NoAnswer

\* what each specification leaves alone
mergeOthers == <<timelineVars, metarVars, warnVars, resolveVars, handlerVars>>

IdleMergeOthers ==
  IdleTimeline /\ IdleMetar /\ IdleWarn /\ IdleResolve /\ IdleHandler

timelineOthers == <<mergeVars, metarVars, warnVars, resolveVars, handlerVars>>

IdleTimelineOthers ==
  IdleMerge /\ IdleMetar /\ IdleWarn /\ IdleResolve /\ IdleHandler

metarOthers == <<startYMD, endYMD, t, endEpoch, offsetSeconds, timelineEpochs,
                 mergeVars, warnVars, resolveVars, handlerVars>>

IdleMetarOthers ==
  /\ IdleTimeline /\ offsetSeconds = 0 /\ timelineEpochs = << >> /\ IdleMerge
  /\ IdleWarn /\ IdleResolve /\ IdleHandler

warnOthers == <<startYMD, endYMD, t, endEpoch, offsetSeconds, timelineEpochs,
                mergeVars, metarVars, resolveVars, handlerVars>>

IdleWarnOthers ==
  /\ IdleTimeline /\ offsetSeconds = 0 /\ timelineEpochs = << >> /\ IdleMerge
  /\ IdleMetar /\ IdleResolve /\ IdleHandler

resolveOthers == <<originDay, startYMD, endYMD, t, endEpoch, offsetSeconds,
                   timelineEpochs, mergeVars, metarVars, warnVars, handlerVars>>

IdleResolveOthers ==
  /\ originDay = 0 /\ IdleTimeline /\ offsetSeconds = 0
  /\ timelineEpochs = << >> /\ IdleMerge /\ IdleMetar /\ IdleWarn
  /\ IdleHandler

---------------------------------------------------------------------------
(* SpecMerge: mergeByEpoch applied to every input of a bounded family *)

MaxHours == 2

MaxTimelineLen == 2

MaxRows == 1

\* 2025-05-02, the day of the merge inputs
MergeDay == DaysFromCivil(2025, 5, 2)

MergeEpochs == {h * HourMs : h \in 0 .. MaxHours - 1}

\* station rows [ws, wpgt, prcp]: every kind of value in every field
StationRows ==
  { [ws |-> Num(1235),  wpgt |-> Null,        prcp |-> NaN],
    [ws |-> Null,       wpgt |-> NaN,         prcp |-> Num(7)],
    [ws |-> NaN,        wpgt |-> Num(-1235),  prcp |-> Null],
    [ws |-> Str,        wpgt |-> Num(2000),   prcp |-> Str] }

OpenItems ==
  { [wind_kmh |-> Num(881), gust_kmh |-> Null,      precip_mm |-> Num(3)],
    [wind_kmh |-> Null,     gust_kmh |-> Num(4321), precip_mm |-> Null],
    [wind_kmh |-> NaN,      gust_kmh |-> NaN,       precip_mm |-> NaN] }

SeqsUpTo(S, n) == UNION {[1 .. k -> S] : k \in 0 .. n}

\* the station rows come in time order, one row an hour
InTimeOrder(seqs) ==
  {s \in seqs : \A i \in 1 .. Len(s) - 1 : s[i] < s[i + 1]}

\* the station series of rows at the given epochs, as the fetcher shapes it
SeriesOf(rows) ==
  [time |-> << >>,
   ws   |-> [i \in DOMAIN rows |-> rows[i].ws],
   wpgt |-> [i \in DOMAIN rows |-> rows[i].wpgt],
   prcp |-> [i \in DOMAIN rows |-> rows[i].prcp],
   available |-> Len(rows) > 0, size |-> Len(rows)]

MergeInit ==
  /\ pc = "merge.call"
  /\ originDay = MergeDay
  /\ offsetSeconds = 0
  /\ timelineEpochs \in SeqsUpTo(MergeEpochs \cup {NaNEpoch}, MaxTimelineLen)
  /\ \E msEpochs \in InTimeOrder(SeqsUpTo(MergeEpochs, MaxRows)) :
       \E rows \in [DOMAIN msEpochs -> StationRows] :
         /\ meteostatIdx = makeIndexMap(msEpochs)
         /\ meteostat = SeriesOf(rows)
  /\ \E S \in SUBSET MergeEpochs :
       \E items \in [S -> OpenItems] :
         openMap = [e \in S |-> [epoch |-> e,
                                 wind_kmh |-> items[e].wind_kmh,
                                 gust_kmh |-> items[e].gust_kmh,
                                 precip_mm |-> items[e].precip_mm]]
  /\ opts \in {NoOpts,
               [given |-> TRUE, useOpenMeteoFallback |-> FALSE],
               [given |-> TRUE, useOpenMeteoFallback |-> TRUE]}
  /\ merged = << >>
  /\ IdleMergeOthers

\* const merged = mergeByEpoch(timelineEpochs, msIndex, meteostat, openMap, tz, opts)
MergeCall ==
  /\ pc = "merge.call"
  /\ LET r == mergeByEpoch(timelineEpochs, meteostatIdx, meteostat, openMap, opts)
     IN /\ merged' = r.out
        /\ pc' = IF r.threw THEN "merge.threw" ELSE "merge.done"
  /\ UNCHANGED <<originDay, offsetSeconds, timelineEpochs, meteostatIdx,
                 meteostat, openMap, opts, mergeOthers>>

MergeNext == MergeCall

SpecMerge == MergeInit /\ [][MergeNext]_vars

---------------------------------------------------------------------------
(* Claims about mergeByEpoch, checked under SpecMerge *)

\* the station value of a field at an epoch, as the index map and the
\* arrays give it, and the reanalysis value of the item of that epoch
StationAt(arr, epoch) ==
  IF epoch \in DOMAIN meteostatIdx THEN At(arr, meteostatIdx[epoch]) ELSE Null

OpenAt(epoch) ==
  IF epoch \in DOMAIN openMap THEN openMap[epoch]
  ELSE [epoch |-> epoch, wind_kmh |-> Null, gust_kmh |-> Null, precip_mm |-> Null]

MergeReturned == pc = "merge.done"

\* C1 (as claimed): in every record mergeByEpoch returns, for wind, gust and
\* precipitation, the source tag is non-null if and only if the value is
\* non-null, also for NaN and non-numeric station or reanalysis values.
C1_TagIffValue ==
  MergeReturned =>
    \A i \in DOMAIN merged :
      /\ (merged[i].sources.wind # "null") <=> NotNull(merged[i].wind_kmh)
      /\ (merged[i].sources.gust # "null") <=> NotNull(merged[i].gust_kmh)
      /\ (merged[i].sources.precip # "null") <=> NotNull(merged[i].precip_mm)

\* the three-step rule for one field of one record
PriorityRule(st, om, val, src, isRound) ==
  LET conv(x) == IF isRound THEN round1(x) ELSE ToNumber(x)
  IN /\ NotNull(st) => (src = "meteostat" /\ val = conv(st))
     /\ (~NotNull(st) /\ UseOM(opts) /\ NotNull(om))
          => (src = "open-meteo" /\ val = conv(om))
     /\ (~NotNull(st) /\ ~(UseOM(opts) /\ NotNull(om)))
          => (src = "null" /\ val = Null)

\* C2: per epoch and per field, a non-null station value is carried (rounded
\* to one decimal for wind and gust) and tagged meteostat whatever the
\* reanalysis holds; else, with the fallback enabled, a non-null reanalysis
\* value is carried and tagged open-meteo; else value and tag are null.
C2_PriorityRule ==
  MergeReturned =>
    /\ Len(merged) = Len(timelineEpochs)
    /\ \A i \in DOMAIN merged :
         LET e == timelineEpochs[i]
             r == merged[i]
         IN /\ PriorityRule(StationAt(meteostat.ws, e), OpenAt(e).wind_kmh,
                            r.wind_kmh, r.sources.wind, TRUE)
            /\ PriorityRule(StationAt(meteostat.wpgt, e), OpenAt(e).gust_kmh,
                            r.gust_kmh, r.sources.gust, TRUE)
            /\ PriorityRule(StationAt(meteostat.prcp, e), OpenAt(e).precip_mm,
                            r.precip_mm, r.sources.precip, FALSE)

\* C2's scenario: station wind at hour H, reanalysis-only wind at H+1, the
\* fallback enabled; and an hour where both hold wind
C2_Witness ==
  /\ MergeReturned
  /\ UseOM(opts)
  /\ timelineEpochs = <<0, HourMs>>
  /\ StationAt(meteostat.ws, 0) = Num(1235)
  /\ StationAt(meteostat.ws, HourMs) = Null
  /\ OpenAt(0).wind_kmh = Num(881)
  /\ OpenAt(HourMs).wind_kmh = Num(881)
  /\ merged[1].sources.wind = "meteostat" /\ merged[1].wind_kmh = Num(1240)
  /\ merged[2].sources.wind = "open-meteo" /\ merged[2].wind_kmh = Num(880)

---------------------------------------------------------------------------
(* generateEpochsForLocalRange *)

\* Date.UTC(ys, ms - 1, ds, 0, 0, 0) - offsetSeconds * 1000
LocalRangeStart(s, off) == DateUTC(s.y, s.m, s.d, 0, 0) - off * 1000

LocalRangeEndAtMidnight(e, off) == DateUTC(e.y, e.m, e.d, 0, 0) - off * 1000

\* Date.UTC(ye, me - 1, de, 23, 0, 0) - offsetSeconds * 1000
LocalRangeEnd(e, off) == DateUTC(e.y, e.m, e.d, 23, 0) - off * 1000

RECURSIVE genLoop(_, _, _)
\* out.push(t); t += 3600 * 1000, from the element just pushed
genLoop(tt, last, out) ==
  IF tt <= last
    THEN LET pushed == Append(out, tt)
         IN  genLoop(pushed[Len(pushed)] + HourMs, last, pushed)
    ELSE out

\* the whole call, as the handler uses it
generateEpochsForLocalRange(s, e, off) ==
  genLoop(LocalRangeStart(s, off), LocalRangeEnd(e, off), << >>)

(* SpecTimeline: the loop of generateEpochsForLocalRange, one iteration a  *)
(* step, on date ranges that cross month ends, a leap day and a year end   *)

MaxDays == 3

MaxStartShift == 1

TimelineBases ==
  { DaysFromCivil(2024, 2, 28), DaysFromCivil(2023, 2, 27),
    DaysFromCivil(2024, 12, 30), DaysFromCivil(2025, 5, 2),
    DaysFromCivil(2025, 4, 29), DaysFromCivil(2025, 10, 25) }

\* UTC offsets in seconds: -03:00, UTC, +01:00, +05:30
TimelineOffsets == {-10800, 0, 3600, 19800}

TimelineInit ==
  /\ pc = "gen.call"
  /\ originDay \in TimelineBases
  /\ \E i \in 0 .. MaxStartShift : \E j \in 0 .. MaxDays - 1 :
       /\ startYMD = CivilFromDays(originDay + i)
       /\ endYMD = CivilFromDays(originDay + i + j)
  /\ offsetSeconds \in TimelineOffsets
  /\ t = 0 /\ endEpoch = 0
  /\ timelineEpochs = << >>
  /\ IdleTimelineOthers

\* const startEpoch = ...; const endEpoch = ...; const out = []; t = startEpoch
GenStart ==
  /\ pc = "gen.call"
  /\ t' = LocalRangeStart(startYMD, offsetSeconds)
  /\ endEpoch' = LocalRangeEnd(endYMD, offsetSeconds)
  /\ timelineEpochs' = << >>
  /\ pc' = "gen.loop"
  /\ UNCHANGED <<originDay, startYMD, endYMD, offsetSeconds, timelineOthers>>

\* for (...; t <= endEpoch; t += 3600 * 1000) out.push(t)
GenIter ==
  /\ pc = "gen.loop"
  /\ t <= endEpoch
  /\ timelineEpochs' = Append(timelineEpochs, t)
  /\ t' = t + HourMs
  /\ UNCHANGED <<pc, originDay, startYMD, endYMD, offsetSeconds, endEpoch,
                 timelineOthers>>

\* return out
GenReturn ==
  /\ pc = "gen.loop"
  /\ ~(t <= endEpoch)
  /\ pc' = "gen.done"
  /\ UNCHANGED <<originDay, startYMD, endYMD, offsetSeconds, t, endEpoch,
                 timelineEpochs, timelineOthers>>

TimelineNext == GenStart \/ GenIter \/ GenReturn

SpecTimeline == TimelineInit /\ [][TimelineNext]_vars

\* the number of calendar days of the inclusive range
DaysInclusive(s, e) == DaysFromCivil(e.y, e.m, e.d) - DaysFromCivil(s.y, s.m, s.d) + 1

\* C4: for start <= end and every offset, generateEpochsForLocalRange returns
\* 24 * (days of the inclusive range) epochs, from local midnight of the
\* start date to local 23:00 of the end date, each exactly 3,600,000 ms
\* after the one before; and the loop agrees with the operator the handler uses.
C4_TimelineGrid ==
  pc = "gen.done" =>
    /\ Len(timelineEpochs) = 24 * DaysInclusive(startYMD, endYMD)
    /\ timelineEpochs[1] =
         DateUTC(startYMD.y, startYMD.m, startYMD.d, 0, 0) - offsetSeconds * 1000
    /\ timelineEpochs[Len(timelineEpochs)] =
         DateUTC(endYMD.y, endYMD.m, endYMD.d, 23, 0) - offsetSeconds * 1000
    /\ \A i \in 1 .. Len(timelineEpochs) - 1 :
         timelineEpochs[i + 1] - timelineEpochs[i] = 3600000
    /\ timelineEpochs = generateEpochsForLocalRange(startYMD, endYMD, offsetSeconds)

\* a three-day range over the leap day, at offset +05:30
C4_Witness ==
  /\ pc = "gen.done"
  /\ startYMD = [y |-> 2024, m |-> 2, d |-> 28]
  /\ endYMD = [y |-> 2024, m |-> 3, d |-> 1]
  /\ offsetSeconds = 19800
  /\ Len(timelineEpochs) = 72

---------------------------------------------------------------------------
(* Text: a string is the sequence of its characters, so that the regular   *)
(* expressions of the code are matched as the engine matches them          *)

UpperChars == {"A", "B", "C", "D", "E", "F", "G", "H", "I", "J", "K", "L", "M",
               "N", "O", "P", "Q", "R", "S", "T", "U", "V", "W", "X", "Y", "Z"}

LowerChars == {"a", "b", "c", "d", "e", "f", "g", "h", "i", "j", "k", "l", "m",
               "n", "o", "p", "q", "r", "s", "t", "u", "v", "w", "x", "y", "z"}

DigitChars == {"0", "1", "2", "3", "4", "5", "6", "7", "8", "9"}

WordChars == UpperChars \cup LowerChars \cup DigitChars \cup {"_"}

\* \w
IsWordChar(c) == c \in WordChars

\* \s
IsSpaceChar(c) == c \in {" ", "\t", "\n", "\r"}

\* \b before position i (1 .. Len + 1): a word character on one side only
WordAt(s, i) == i \in DOMAIN s /\ IsWordChar(s[i])

Boundary(s, i) == WordAt(s, i - 1) # WordAt(s, i)

\* the literal lit at position i of s
MatchAt(s, i, lit) ==
  /\ i >= 1 /\ i + Len(lit) - 1 <= Len(s)
  /\ \A k \in DOMAIN lit : s[i + k - 1] = lit[k]

\* /\blit\b/.test(s)
WholeWord(s, lit) ==
  \E i \in DOMAIN s :
    Boundary(s, i) /\ MatchAt(s, i, lit) /\ Boundary(s, i + Len(lit))

\* a text of words separated by one space
RECURSIVE Words(_)
Words(ws) ==
  IF Len(ws) = 0 THEN << >>
  ELSE IF Len(ws) = 1 THEN ws[1]
  ELSE ws[1] \o <<" ">> \o Words(Tail(ws))

---------------------------------------------------------------------------
(* thunder.ts: parseMetarForThunder and metarHoursMap *)

\* /\bVCTS\b/
ReVCTS(s) == WholeWord(s, <<"V", "C", "T", "S">>)

\* /\bTS(GR|RA|\+TS|TS|\-TS)\b/
ReTSGroup(s) ==
  \E alt \in {<<"G", "R">>, <<"R", "A">>, <<"+", "T", "S">>, <<"T", "S">>,
              <<"-", "T", "S">>} :
    WholeWord(s, <<"T", "S">> \o alt)

\* /\b\+?TS\b/
ReTS(s) == WholeWord(s, <<"T", "S">>) \/ WholeWord(s, <<"+", "T", "S">>)

parseMetarForThunder(metarTxt) ==
  IF Len(metarTxt) = 0 THEN "null"
  ELSE IF ReVCTS(metarTxt)
    THEN IF ReTSGroup(metarTxt) \/ ReTS(metarTxt) THEN "TS" ELSE "VCTS"
  ELSE IF ReTSGroup(metarTxt) \/ ReTS(metarTxt) THEN "TS"
  ELSE "null"

\* Math.floor(epochMs / (3600 * 1000)) * 3600 * 1000; NaN stays NaN
EpochHour(epochMs) ==
  IF epochMs = NaNEpoch THEN NaNEpoch ELSE (epochMs \div HourMs) * HourMs

\* map.set(key, value)
MapSet(m, key, value) ==
  [x \in DOMAIN m \cup {key} |-> IF x = key THEN value ELSE m[x]]

\* the body of the loop without the test prev !== 'TS'
MetarStepDowngrade(m, e) ==
  LET flag == parseMetarForThunder(e.raw)
      epochHour == EpochHour(e.epochMs)
      prevFalsy == epochHour \notin DOMAIN m \/ m[epochHour] = "null"
  IN IF flag = "TS" THEN MapSet(m, epochHour, "TS")
     ELSE IF flag = "VCTS" THEN MapSet(m, epochHour, "VCTS")
     ELSE IF prevFalsy THEN MapSet(m, epochHour, "null")
     ELSE m

\* the body of the loop of metarHoursMap for one report
MetarStep(m, e) ==
  LET flag == parseMetarForThunder(e.raw)
      epochHour == EpochHour(e.epochMs)
      prevIsTS == epochHour \in DOMAIN m /\ m[epochHour] = "TS"
      prevFalsy == epochHour \notin DOMAIN m \/ m[epochHour] = "null"
  IN IF flag = "TS" THEN MapSet(m, epochHour, "TS")
     ELSE IF flag = "VCTS" /\ ~prevIsTS THEN MapSet(m, epochHour, "VCTS")
     ELSE IF prevFalsy THEN MapSet(m, epochHour, "null")
     ELSE m

RECURSIVE metarLoop(_, _, _)
metarLoop(i, m, es) ==
  IF i > Len(es) THEN m ELSE metarLoop(i + 1, MetarStep(m, es[i]), es)

\* the whole call, as the handler uses it
metarHoursMap(es) == metarLoop(1, << >>, es)

---------------------------------------------------------------------------
(* SpecMetar: the loop of metarHoursMap, one report a step, on every       *)
(* sequence of up to MaxEntries reports                                    *)

MaxEntries == 3

\* 2025-05-02, the day of the reports
MetarDay == DaysFromCivil(2025, 5, 2)

\* the weather groups of raw reports: rain only; thunderstorm in the
\* vicinity; a heavy thunderstorm with rain; a plain thunderstorm; both
\* tokens in one report
MetarSamples ==
  { <<"R", "A">>,
    <<"V", "C", "T", "S">>,
    <<"+", "T", "S", "R", "A">>,
    Words(<< <<"B", "R">>, <<"T", "S">> >>),
    Words(<< <<"V", "C", "T", "S">>, <<"-", "T", "S", "R", "A">> >>) }

\* 00:20 and 00:50 (one hour), 01:05 (the next)
MetarInstants == {20 * 60000, 50 * 60000, HourMs + 5 * 60000}

MetarInit ==
  /\ pc = "metar.loop"
  /\ originDay = MetarDay
  /\ entries \in SeqsUpTo([raw : MetarSamples, epochMs : MetarInstants], MaxEntries)
  /\ byHour = << >>
  /\ ei = 1
  /\ IdleMetarOthers

\* for (const e of entries) { ... }
MetarIter ==
  /\ pc = "metar.loop"
  /\ ei <= Len(entries)
  /\ byHour' = MetarStep(byHour, entries[ei])
  /\ ei' = ei + 1
  /\ UNCHANGED <<pc, originDay, entries, metarOthers>>

\* return map
MetarReturn ==
  /\ pc = "metar.loop"
  /\ ei > Len(entries)
  /\ pc' = "metar.done"
  /\ UNCHANGED <<originDay, entries, byHour, ei, metarOthers>>

MetarNext == MetarIter \/ MetarReturn

SpecMetar == MetarInit /\ [][MetarNext]_vars

FlagRank(f) == IF f = "TS" THEN 2 ELSE IF f = "VCTS" THEN 1 ELSE 0

\* the flags of the first n reports whose time truncates to hour h
FlagsOfHour(h, n) ==
  {parseMetarForThunder(entries[i].raw) :
     i \in {j \in 1 .. n : EpochHour(entries[j].epochMs) = h}}

\* C6: after any number of reports, the flag stored for an hour is the
\* strongest (TS > VCTS > null) among the reports read so far whose time
\* truncates to that hour, whatever their order; so a stored TS is never
\* changed, a stored VCTS is never reset to null, and a TS and a VCTS
\* report of one hour give TS in either order.
C6_StrongestFlag ==
  pc \in {"metar.loop", "metar.done"} =>
    /\ DOMAIN byHour = {EpochHour(entries[i].epochMs) : i \in 1 .. ei - 1}
    /\ \A h \in DOMAIN byHour :
         /\ byHour[h] \in FlagsOfHour(h, ei - 1)
         /\ \A f \in FlagsOfHour(h, ei - 1) : FlagRank(f) <= FlagRank(byHour[h])
    /\ (pc = "metar.done" => byHour = metarHoursMap(entries))

\* a TS report followed, in the same hour, by a VCTS report and by a report
\* without thunder
C6_Witness ==
  /\ pc = "metar.done"
  /\ Len(entries) = 3
  /\ parseMetarForThunder(entries[1].raw) = "TS"
  /\ parseMetarForThunder(entries[2].raw) = "VCTS"
  /\ parseMetarForThunder(entries[3].raw) = "null"
  /\ \A i \in 1 .. 3 : EpochHour(entries[i].epochMs) = 0
  /\ byHour[0] = "TS"

---------------------------------------------------------------------------
(* More text: toLowerCase, includes, trim *)

UpperSeq == <<"A", "B", "C", "D", "E", "F", "G", "H", "I", "J", "K", "L", "M",
              "N", "O", "P", "Q", "R", "S", "T", "U", "V", "W", "X", "Y", "Z">>

LowerSeq == <<"a", "b", "c", "d", "e", "f", "g", "h", "i", "j", "k", "l", "m",
              "n", "o", "p", "q", "r", "s", "t", "u", "v", "w", "x", "y", "z">>

LowerOfChar(c) ==
  IF c \in UpperChars
    THEN LowerSeq[CHOOSE i \in DOMAIN UpperSeq : UpperSeq[i] = c]
    ELSE c

\* s.toLowerCase()
ToLowerCase(s) == [i \in DOMAIN s |-> LowerOfChar(s[i])]

\* hay.includes(needle)
Includes(hay, needle) ==
  Len(needle) = 0 \/ \E i \in DOMAIN hay : MatchAt(hay, i, needle)

---------------------------------------------------------------------------
(* Date.prototype.toISOString: the UTC components of an instant *)

ToISOString(epochMs) ==
  LET c  == CivilFromDays(DayOf(epochMs))
      ms == MsOfDay(epochMs)
  IN [y |-> c.y, m |-> c.m, d |-> c.d,
      H |-> ms \div HourMs, Min |-> (ms % HourMs) \div 60000,
      S |-> (ms % 60000) \div 1000, ms |-> ms % 1000]

---------------------------------------------------------------------------
(* warnings.ts: fetchIpmaWarnings.  A feed answer is an HTTP error, a      *)
(* network exception, a body that is not JSON, a JSON value that is not a  *)
(* list, or a list of entries; an entry's start and end are the instants   *)
(* Date.parse gives its strings (NaNEpoch for a missing or malformed one). *)

\* /(trovoada|thunder|precip|rain|vento|wind)/i.test(ph)
RePhenomenon(ph) ==
  \E kw \in { <<"t", "r", "o", "v", "o", "a", "d", "a">>,
              <<"t", "h", "u", "n", "d", "e", "r">>,
              <<"p", "r", "e", "c", "i", "p">>,
              <<"r", "a", "i", "n">>,
              <<"v", "e", "n", "t", "o">>,
              <<"w", "i", "n", "d">> } :
    Includes(ToLowerCase(ph), kw)

\* the tests of the loop that let an entry through
WarningKept(item, target, startMs, endMs) ==
  /\ Includes(ToLowerCase(item.region), ToLowerCase(target))
  /\ RePhenomenon(item.phenomena)
  /\ item.s # NaNEpoch /\ item.e # NaNEpoch
  /\ ~(item.e < startMs \/ item.s > endMs)

WarningOfUnclipped(item, startMs, endMs) ==
  [start |-> ToISOString(item.s), end |-> ToISOString(item.e),
   fenomeno |-> item.phenomena, nivel |-> item.nivel, link |-> item.link]

\* the object pushed for a kept entry
WarningOf(item, startMs, endMs) ==
  [start |-> ToISOString(Max2(item.s, startMs)),
   end |-> ToISOString(Min2(item.e, endMs)),
   fenomeno |-> item.phenomena, nivel |-> item.nivel, link |-> item.link]

RECURSIVE warningsLoop(_, _, _, _, _, _)
warningsLoop(i, out, list, target, startMs, endMs) ==
  IF i > Len(list) THEN out
  ELSE warningsLoop(i + 1,
         IF WarningKept(list[i], target, startMs, endMs)
           THEN Append(out, WarningOf(list[i], startMs, endMs))
           ELSE out,
         list, target, startMs, endMs)

\* fetchIpmaWarnings: every failure is caught and gives the empty list; with
\* a NaN interval no entry is skipped as not intersecting and toISOString
\* throws at the first one pushed, which is caught too
fetchIpmaWarnings(answer, target, startMs, endMs) ==
  IF answer.kind = "list" /\ startMs # NaNEpoch /\ endMs # NaNEpoch
    THEN warningsLoop(1, << >>, answer.items, target, startMs, endMs)
    ELSE << >>

---------------------------------------------------------------------------
(* SpecWarnings: fetchIpmaWarnings on every feed of up to MaxFeed entries  *)

MaxFeed == 2

\* 2025-05-02, the day of the requested interval
WarnDay == DaysFromCivil(2025, 5, 2)

TxtPorto == <<"P", "o", "r", "t", "o">>

TxtAveiro == <<"A", "v", "e", "i", "r", "o">>

TxtLisboa == <<"L", "i", "s", "b", "o", "a">>

\* [start, end] of feed entries: before the interval, ending at its first
\* instant, overlapping its start, inside, overlapping its end, after it,
\* covering it, and with a start that does not parse
FeedSpans ==
  { <<-2 * HourMs, -HourMs>>, <<-HourMs, 0>>, <<-HourMs, 30 * 60000>>,
    <<30 * 60000, 45 * 60000>>, <<30 * 60000, 3 * HourMs>>,
    <<3 * HourMs, 4 * HourMs>>, <<-HourMs, 3 * HourMs>>,
    <<NaNEpoch, 30 * 60000>> }

FeedItems ==
  { [region |-> r, phenomena |-> ph, s |-> sp[1], e |-> sp[2],
     nivel |-> "yellow", link |-> "https://www.ipma.pt/pt/"] :
      r \in {<<"P", "O", "R", "T", "O">>, TxtAveiro},
      ph \in {<<"V", "e", "n", "t", "o">>, <<"N", "e", "v", "e">>},
      sp \in FeedSpans }

FeedAnswers ==
  { [kind |-> k, items |-> << >>] : k \in {"httpError", "throws", "badJson", "notList"} }
  \cup { [kind |-> "list", items |-> its] : its \in SeqsUpTo(FeedItems, MaxFeed) }

WarnInit ==
  /\ pc = "warn.call"
  /\ originDay = WarnDay
  /\ feed \in FeedAnswers
  /\ distrito \in {TxtPorto, TxtAveiro}
  \* the requested interval: two timeline hours, [00:00, 01:59:59.999]
  /\ intervalStartMs = 0
  /\ intervalEndMs = 2 * HourMs - 1
  /\ warnings = << >>
  /\ IdleWarnOthers

\* const { warnings } = await fetchIpmaWarnings(fetch, distrito, start, end)
WarnCall ==
  /\ pc = "warn.call"
  /\ warnings' = fetchIpmaWarnings(feed, distrito, intervalStartMs, intervalEndMs)
  /\ pc' = "warn.done"
  /\ UNCHANGED <<originDay, feed, distrito, intervalStartMs, intervalEndMs,
                 warnOthers>>

WarnNext == WarnCall

SpecWarnings == WarnInit /\ [][WarnNext]_vars

\* the instant an ISO string of toISOString names
FromISOString(r) ==
  DateUTC(r.y, r.m, r.d, r.H, r.Min) + r.S * 1000 + r.ms

\* the feed entries the claim lets through, in feed order
RECURSIVE ClaimedKept(_)
ClaimedKept(items) ==
  IF Len(items) = 0 THEN << >>
  ELSE
    LET it == items[1]
        ok == /\ it.s # NaNEpoch /\ it.e # NaNEpoch
              /\ it.s <= intervalEndMs /\ it.e >= intervalStartMs
              /\ Includes(ToLowerCase(it.region), ToLowerCase(distrito))
              /\ RePhenomenon(it.phenomena)
    IN (IF ok THEN <<it>> ELSE << >>) \o ClaimedKept(Tail(items))

\* C7: every warning returned lies within [intervalStart, intervalEnd]; the
\* warnings are exactly the feed entries whose interval intersects the
\* requested one, whose region contains the target region (case-insensitive)
\* and whose phenomenon matches a keyword, each clipped to the intersection.
C7_WarningsClipped ==
  pc = "warn.done" =>
    LET kept == ClaimedKept(feed.items)
    IN /\ \A i \in DOMAIN warnings :
            /\ intervalStartMs <= FromISOString(warnings[i].start)
            /\ FromISOString(warnings[i].end) <= intervalEndMs
       /\ Len(warnings) = Len(kept)
       /\ \A i \in DOMAIN warnings :
            /\ FromISOString(warnings[i].start) = Max2(kept[i].s, intervalStartMs)
            /\ FromISOString(warnings[i].end) = Min2(kept[i].e, intervalEndMs)
            /\ warnings[i].fenomeno = kept[i].phenomena

\* a feed entry overlapping both ends of the interval is returned clipped,
\* next to an entry of another region that is dropped
C7_Witness ==
  /\ pc = "warn.done"
  /\ feed.kind = "list" /\ Len(feed.items) = 2
  /\ feed.items[1].s = -HourMs /\ feed.items[1].e = 3 * HourMs
  /\ Len(warnings) = 1
  /\ warnings[1].start = ToISOString(intervalStartMs)
  /\ warnings[1].end = ToISOString(intervalEndMs)

---------------------------------------------------------------------------
(* geocode.ts: resolvePlace.  A coordinate is a number of thousandths of a *)
(* degree.  A field a JSON object lacks is Null (undefined), and           *)
(* Number(undefined) is NaN.                                               *)

RECURSIVE TrimStart(_)
TrimStart(s) ==
  IF Len(s) > 0 /\ IsSpaceChar(s[1]) THEN TrimStart(Tail(s)) ELSE s

RECURSIVE TrimEnd(_)
TrimEnd(s) ==
  IF Len(s) > 0 /\ IsSpaceChar(s[Len(s)])
    THEN TrimEnd(SubSeq(s, 1, Len(s) - 1))
    ELSE s

\* s.trim()
Trim(s) == TrimEnd(TrimStart(s))

KeyEspinho == <<"e", "s", "p", "i", "n", "h", "o">>

KeyGuetim == <<"g", "u", "e", "t", "i", "m">>

KeyPorto == <<"p", "o", "r", "t", "o">>

KeyLisboa == <<"l", "i", "s", "b", "o", "a">>

StaticKeys == {KeyEspinho, KeyGuetim, KeyPorto, KeyLisboa}

\* const staticFallbacks: Record<string, Place>
staticFallbacks ==
  [k \in StaticKeys |->
     CASE k = KeyEspinho ->
            [name |-> <<"E", "s", "p", "i", "n", "h", "o">>, lat |-> Num(41007),
             lon |-> Num(-8641), admin1 |-> TxtAveiro, admin2 |-> << >>,
             country_code |-> "PT"]
       [] k = KeyGuetim ->
            [name |-> <<"G", "u", "e", "t", "i", "m">>, lat |-> Num(40984),
             lon |-> Num(-8631), admin1 |-> TxtAveiro, admin2 |-> << >>,
             country_code |-> "PT"]
       [] k = KeyPorto ->
            [name |-> TxtPorto, lat |-> Num(41149), lon |-> Num(-8610),
             admin1 |-> TxtPorto, admin2 |-> << >>, country_code |-> "PT"]
       [] k = KeyLisboa ->
            [name |-> TxtLisboa, lat |-> Num(38722), lon |-> Num(-9139),
             admin1 |-> TxtLisboa, admin2 |-> << >>, country_code |-> "PT"]]

KeyConstructor == <<"c", "o", "n", "s", "t", "r", "u", "c", "t", "o", "r">>

KeyProto == <<"_", "_", "p", "r", "o", "t", "o", "_", "_">>

\* staticFallbacks is a plain object: the lower-case key "constructor" finds
\* Object.prototype.constructor, a function whose name is read as the
\* place's name and which has no lat, lon or admin1; the key "__proto__"
\* finds Object.prototype, which has none of the fields
PrototypeKeys == {KeyConstructor, KeyProto}

PrototypeMember(k) ==
  [name |-> IF k = KeyConstructor THEN <<"O", "b", "j", "e", "c", "t">> ELSE << >>,
   lat |-> Null, lon |-> Null,
   admin1 |-> << >>, admin2 |-> << >>, country_code |-> ""]

StaticKeyExact(name) == name

\* const key = q.trim().toLowerCase()
StaticKey(name) == ToLowerCase(Trim(name))

\* staticFallbacks[key] is truthy
StaticHit(key) == key \in StaticKeys \/ key \in PrototypeKeys

StaticEntry(key) ==
  IF key \in StaticKeys THEN staticFallbacks[key] ELSE PrototypeMember(key)

\* tryFallback(q)
tryFallback(name) ==
  IF StaticHit(StaticKey(name)) THEN StaticEntry(StaticKey(name))
  ELSE staticFallbacks[KeyPorto]

TxtContinental == <<"c", "o", "n", "t", "i", "n", "e", "n", "t", "a", "l">>

\* /continental/i.test(String(r?.admin1) || '') ||
\* /portugal,? continental/i.test(String(r?.country) || '')
IsContinental(r) ==
  \/ Includes(ToLowerCase(r.admin1), TxtContinental)
  \/ Includes(ToLowerCase(r.country),
              <<"p", "o", "r", "t", "u", "g", "a", "l", " ">> \o TxtContinental)
  \/ Includes(ToLowerCase(r.country),
              <<"p", "o", "r", "t", "u", "g", "a", "l", ",", " ">> \o TxtContinental)

\* pool.sort(population desc)[0]: the sort is stable, so the first of the
\* entries of the largest population
FirstOfLargest(pool) ==
  pool[CHOOSE i \in DOMAIN pool :
         /\ \A j \in DOMAIN pool : pool[j].population <= pool[i].population
         /\ \A j \in 1 .. i - 1 : pool[j].population < pool[i].population]

\* what resolvePlace makes of the answer of the geocoding upstream
PlaceFromAnswer(name, answer) ==
  IF answer.kind # "json" THEN tryFallback(name)
  ELSE
    LET pt == SelectSeq(answer.results, LAMBDA r : r.country_code = "PT")
        continental == SelectSeq(pt, IsContinental)
        pool == IF Len(continental) > 0 THEN continental ELSE pt
        r == FirstOfLargest(pool)
    IN IF Len(pt) = 0 THEN tryFallback(name)
       ELSE [name |-> IF Len(r.name) > 0 THEN r.name ELSE name,
             lat |-> IF r.latitude = Null THEN NaN ELSE r.latitude,
             lon |-> IF r.longitude = Null THEN NaN ELSE r.longitude,
             admin1 |-> r.admin1, admin2 |-> << >>, country_code |-> "PT"]

\* the whole call, as the handler uses it: the place and the network calls
resolvePlace(name, answer) ==
  IF StaticHit(StaticKey(name))
    THEN [place |-> StaticEntry(StaticKey(name)), calls |-> 0]
    ELSE [place |-> PlaceFromAnswer(name, answer), calls |-> 1]

---------------------------------------------------------------------------
(* SpecResolve: resolvePlace on names inside and outside the static table, *)
(* against every answer of the geocoding upstream of up to MaxResults      *)
(* results                                                                 *)

MaxResults == 2

TxtBraga == <<"B", "r", "a", "g", "a">>

\* names as the request may spell them
PlaceNames ==
  { TxtPorto, <<" ", "P", "O", "R", "T", "O", " ">>, KeyLisboa,
    <<"E", "s", "p", "i", "n", "h", "o", "\t">>,
    <<" ", "g", "u", "e", "T", "i", "m">>,
    TxtBraga, <<"P", "o", "r", "t", "o", " ", "C", "o", "v", "o">>,
    <<"P", "o", "r", "t">>, <<" ">>,
    <<"c", "o", "n", "s", "t", "r", "u", "c", "t", "o", "r">>,
    <<" ", "_", "_", "P", "R", "O", "T", "O", "_", "_">> }

GeoResults ==
  { [name |-> TxtBraga, latitude |-> Num(41551), longitude |-> Num(-8423),
     admin1 |-> TxtBraga, country |-> <<"P", "T">>, country_code |-> "PT",
     population |-> 120],
    [name |-> << >>, latitude |-> Num(38000), longitude |-> Null,
     admin1 |-> << >>,
     country |-> <<"P", "o", "r", "t", "u", "g", "a", "l", ",", " ">>
                   \o <<"C", "o", "n", "t", "i", "n", "e", "n", "t", "a", "l">>,
     country_code |-> "PT", population |-> 50],
    [name |-> TxtBraga, latitude |-> Num(41000), longitude |-> Num(-8000),
     admin1 |-> TxtPorto, country |-> <<"P", "T">>, country_code |-> "PT",
     population |-> 300],
    [name |-> TxtBraga, latitude |-> Num(42000), longitude |-> Num(-7000),
     admin1 |-> << >>, country |-> <<"E", "S">>, country_code |-> "ES",
     population |-> 900] }

\* an exception of fetch, a non-2xx status, a body that is not JSON, or a
\* JSON body with its results
GeoAnswers ==
  { [kind |-> k, results |-> << >>] : k \in {"throws", "httpError", "badJson"} }
  \cup { [kind |-> "json", results |-> rs] : rs \in SeqsUpTo(GeoResults, MaxResults) }

ResolveInit ==
  /\ pc = "resolve.call"
  /\ q \in PlaceNames
  /\ geo = NoAnswer
  /\ place = NoPlace
  /\ netCalls = 0
  /\ IdleResolveOthers

\* const key = q.trim().toLowerCase();
\* if (staticFallbacks[key]) return staticFallbacks[key];
ResolveLookup ==
  /\ pc = "resolve.call"
  /\ IF StaticHit(StaticKey(q))
       THEN place' = StaticEntry(StaticKey(q)) /\ pc' = "resolve.done"
       ELSE place' = place /\ pc' = "resolve.fetch"
  /\ UNCHANGED <<q, geo, netCalls, resolveOthers>>

\* const res = await fetch(url); ... the rest of the function
ResolveFetch ==
  /\ pc = "resolve.fetch"
  /\ \E answer \in GeoAnswers :
       /\ geo' = answer
       /\ place' = PlaceFromAnswer(q, answer)
  /\ netCalls' = netCalls + 1
  /\ pc' = "resolve.done"
  /\ UNCHANGED <<q, resolveOthers>>

ResolveNext == ResolveLookup \/ ResolveFetch

SpecResolve == ResolveInit /\ [][ResolveNext]_vars

\* C10: for a name that, trimmed and lower-cased, is espinho, guetim, porto
\* or lisboa, resolvePlace returns the fixed coordinates of that locality
\* and issues no network call: the geocoding upstream is never asked, so its
\* state cannot matter.
C10_StaticWithoutNetwork ==
  (pc = "resolve.done" /\ ToLowerCase(Trim(q)) \in StaticKeys) =>
    /\ netCalls = 0
    /\ geo = NoAnswer
    /\ \A a \in GeoAnswers :
         resolvePlace(q, a) = [place |-> place, calls |-> 0]
    /\ LET k == ToLowerCase(Trim(q))
       IN /\ k = KeyEspinho => (place.lat = Num(41007) /\ place.lon = Num(-8641))
          /\ k = KeyGuetim => (place.lat = Num(40984) /\ place.lon = Num(-8631))
          /\ k = KeyPorto => (place.lat = Num(41149) /\ place.lon = Num(-8610))
          /\ k = KeyLisboa => (place.lat = Num(38722) /\ place.lon = Num(-9139))

\* " PORTO " resolved to Porto's coordinates without a network call
C10_Witness ==
  /\ pc = "resolve.done"
  /\ q = <<" ", "P", "O", "R", "T", "O", " ">>
  /\ place.lat = Num(41149) /\ place.lon = Num(-8610)
  /\ netCalls = 0

\* a Place has a latitude and a longitude of type number
IsPlace(p) == p.lat.k \in {"num", "nan"} /\ p.lon.k \in {"num", "nan"}

\* the geocoding upstream failed, or gave no result in Portugal
NoTargetResult(a) ==
  \/ a.kind # "json"
  \/ \A i \in DOMAIN a.results : a.results[i].country_code # "PT"

\* C11: resolvePlace always succeeds: for every name and every outcome of
\* the geocoding upstream it returns a Place (never throws), and whenever
\* the upstream fails or gives no result in the target country the Place is
\* the default seeded locality, Porto.
C11_AlwaysPlace ==
  pc = "resolve.done" =>
    /\ IsPlace(place)
    /\ (netCalls > 0 /\ NoTargetResult(geo)) => place = staticFallbacks[KeyPorto]

---------------------------------------------------------------------------
(* fetchers.ts: local time strings.  A time string of an upstream row is   *)
(* kept by its shape: "local" is YYYY-MM-DD HH:MM (or with a T), "empty"   *)
(* is '' (the row has neither time nor date), "dateonly" is YYYY-MM-DD,    *)
(* and "garbled" has the separator but an hour that is not a number.       *)

LocalTime(y, m, d, h, min) ==
  [shape |-> "local", y |-> y, m |-> m, d |-> d, h |-> h, min |-> min]

EmptyTime == [shape |-> "empty", y |-> 0, m |-> 0, d |-> 0, h |-> 0, min |-> 0]

DateOnlyTime(y, m, d) ==
  [shape |-> "dateonly", y |-> y, m |-> m, d |-> d, h |-> 0, min |-> 0]

GarbledTime(y, m, d) ==
  [shape |-> "garbled", y |-> y, m |-> m, d |-> d, h |-> 0, min |-> 0]

\* parseLocalHourToEpoch: without a separator timePart is undefined and
\* timePart.split throws a TypeError; Number of a non-numeric part is NaN
parseLocalHourToEpoch(localHour, off) ==
  IF localHour.shape \in {"empty", "dateonly"}
    THEN [threw |-> TRUE, epoch |-> NaNEpoch]
  ELSE IF localHour.shape = "garbled"
    THEN [threw |-> FALSE, epoch |-> NaNEpoch]
  ELSE [threw |-> FALSE,
        epoch |-> DateUTC(localHour.y, localHour.m, localHour.d,
                          localHour.h, localHour.min) - off * 1000]

\* toEpochsFromLocalTimes: times.map(parseLocalHourToEpoch)
toEpochsFromLocalTimes(times, off) ==
  [threw  |-> \E i \in DOMAIN times : parseLocalHourToEpoch(times[i], off).threw,
   epochs |-> [i \in DOMAIN times |-> parseLocalHourToEpoch(times[i], off).epoch]]

\* the order of Array.prototype.sort on time strings of one year: '' first,
\* then by date; within a date the bare date, the hours, the garbled hour
TimeSortKey(ts) ==
  IF ts.shape = "empty" THEN -1
  ELSE (DaysFromCivil(ts.y, ts.m, ts.d) - DaysFromCivil(ts.y, 1, 1)) * 10000
       + (CASE ts.shape = "dateonly" -> 0
            [] ts.shape = "local" -> 1 + ts.h * 60 + ts.min
            [] OTHER -> 9999)

---------------------------------------------------------------------------
(* fetchers.ts: the station fetchers.  An upstream answer is an exception  *)
(* of fetch ("throws"), a non-2xx status ("httpError"), a body that is not *)
(* JSON ("badJson") or a JSON body ("json").                               *)

UnavailableButFlagged == [NoSeries EXCEPT !.available = TRUE]

\* { url, available: false, time: [], ws: [], wpgt: [], prcp: [], size: 0 }
Unavailable == NoSeries

\* fetchMeteostatPointHourlyRaw; a row is [time, ws, wpgt, prcp]
fetchMeteostatPointHourlyRaw(answer) ==
  IF answer.kind # "json" \/ Len(answer.data) = 0 THEN Unavailable
  ELSE [time |-> [i \in DOMAIN answer.data |-> answer.data[i].time],
        ws   |-> [i \in DOMAIN answer.data |-> answer.data[i].ws],
        wpgt |-> [i \in DOMAIN answer.data |-> answer.data[i].wpgt],
        prcp |-> [i \in DOMAIN answer.data |-> answer.data[i].prcp],
        available |-> TRUE, size |-> Len(answer.data)]

\* if (cur.f == null && r.f != null) cur.f = Number(r.f)
FillField(cur, v) == IF ~NotNull(cur) /\ NotNull(v) THEN ToNumber(v) ELSE cur

\* byTime after one row: an entry per time string, in insertion order
RowInto(byTime, r) ==
  IF \E i \in DOMAIN byTime : byTime[i].time = r.time
    THEN [i \in DOMAIN byTime |->
            IF byTime[i].time = r.time
              THEN [time |-> r.time,
                    ws   |-> FillField(byTime[i].ws, r.ws),
                    wpgt |-> FillField(byTime[i].wpgt, r.wpgt),
                    prcp |-> FillField(byTime[i].prcp, r.prcp)]
              ELSE byTime[i]]
    ELSE Append(byTime, [time |-> r.time,
                         ws   |-> FillField(Null, r.ws),
                         wpgt |-> FillField(Null, r.wpgt),
                         prcp |-> FillField(Null, r.prcp)])

RECURSIVE RowsInto(_, _)
RowsInto(byTime, rows) ==
  IF Len(rows) = 0 THEN byTime
  ELSE RowsInto(RowInto(byTime, rows[1]), Tail(rows))

\* the loop over the stations within 50 km: a station whose fetch throws
\* ends the function in its catch
RECURSIVE StationsInto(_, _)
StationsInto(byTime, stations) ==
  IF Len(stations) = 0 THEN [threw |-> FALSE, byTime |-> byTime]
  ELSE
    LET h == stations[1].hourly
    IN IF h.kind = "throws" THEN [threw |-> TRUE, byTime |-> << >>]
       ELSE IF h.kind # "json" THEN StationsInto(byTime, Tail(stations))
       ELSE StationsInto(RowsInto(byTime, h.data), Tail(stations))

\* (s.distance ?? 1e9) <= 50, the distance in km
Within50(s) == s.distance # Null /\ s.distance.v <= 50

\* fetchMeteostatNearbyMergedHourly; a station is [distance, hourly], hourly
\* the answer of its stations/hourly request
fetchMeteostatNearbyMergedHourly(answer) ==
  IF answer.kind # "json" THEN Unavailable
  ELSE
    LET within50 == SelectSeq(answer.stations, Within50)
        r == StationsInto(<< >>, within50)
        time == SortSeq(r.byTime,
                        LAMBDA a, b : TimeSortKey(a.time) < TimeSortKey(b.time))
    IN IF Len(within50) = 0 \/ r.threw \/ Len(r.byTime) = 0 THEN Unavailable
       ELSE [time |-> [i \in DOMAIN time |-> time[i].time],
             ws   |-> [i \in DOMAIN time |-> time[i].ws],
             wpgt |-> [i \in DOMAIN time |-> time[i].wpgt],
             prcp |-> [i \in DOMAIN time |-> time[i].prcp],
             available |-> TRUE, size |-> Len(time)]

\* arr.some(v => v != null)
SomeNotNull(arr) == \E i \in DOMAIN arr : NotNull(arr[i])

\* fetchMeteostatHourly: the point series if it holds a value, else the
\* series merged from the nearby stations
fetchMeteostatHourly(pointAnswer, nearbyAnswer) ==
  LET point == fetchMeteostatPointHourlyRaw(pointAnswer)
      haveSome == /\ point.available /\ point.size > 0
                  /\ (SomeNotNull(point.ws) \/ SomeNotNull(point.wpgt)
                      \/ SomeNotNull(point.prcp))
  IN IF haveSome THEN point ELSE fetchMeteostatNearbyMergedHourly(nearbyAnswer)

StationsAskedTwice(stations) == 2 * Len(stations)

\* the requests of the loop over the stations within 50 km: one a station,
\* until one throws
RECURSIVE StationsAsked(_)
StationsAsked(stations) ==
  IF Len(stations) = 0 THEN 0
  ELSE IF stations[1].hourly.kind = "throws" THEN 1
  ELSE 1 + StationsAsked(Tail(stations))

\* the requests fetchMeteostatHourly sends: the point query, then, if the
\* point series holds no value, the nearby query and the stations' queries
MeteostatAsked(c, pointAnswer, nearbyAnswer) ==
  LET point == fetchMeteostatPointHourlyRaw(pointAnswer)
      haveSome == /\ point.available /\ point.size > 0
                  /\ (SomeNotNull(point.ws) \/ SomeNotNull(point.wpgt)
                      \/ SomeNotNull(point.prcp))
      within50 == IF nearbyAnswer.kind = "json"
                    THEN SelectSeq(nearbyAnswer.stations, Within50)
                    ELSE << >>
  IN IF haveSome THEN Asked(c, "point", 1)
     ELSE Asked(Asked(Asked(c, "point", 1), "nearby", 1),
                "stations.hourly", StationsAsked(within50))

---------------------------------------------------------------------------
(* fetchers.ts: fetchOpenMeteoHourly.  A JSON answer is [time, wspd, wgst, *)
(* prcp, offset]: the hourly arrays ([] when absent) and utc_offset_seconds *)
(* (Null when absent, else a number of seconds).                           *)

\* Number.isFinite(n) ? n : null
FiniteOrNull(n) == IF n.k = "num" THEN n ELSE Null

\* sanitize: null for null and undefined, and for what Number(v) makes
\* non-finite; Number of an empty or blank string is 0
sanitize(arr, len) ==
  [i \in 1 .. len |->
     IF i \in DOMAIN arr /\ NotNull(arr[i]) THEN FiniteOrNull(ToNumber(arr[i]))
     ELSE Null]

Min4(a, b, c, d) == Min2(Min2(a, b), Min2(c, d))

\* Math.min of the four lengths
HourlyLen(answer) ==
  IF answer.kind # "json" THEN 0
  ELSE Min4(Len(answer.time), Len(answer.wspd), Len(answer.wgst), Len(answer.prcp))

\* Number(json?.utc_offset_seconds ?? 0)
OffsetOf(answer) ==
  IF answer.kind # "json" \/ answer.offset = Null THEN 0 ELSE answer.offset.v

UrlUsedPrimary(usedArchive) == "era5"

\* urlUsed: the reanalysis URL until the archive URL is built
UrlUsed(usedArchive) == IF usedArchive THEN "archive" ELSE "era5"

\* { url: urlUsed, available: false, items: [], utc_offset_seconds, size: 0,
\*   usedArchiveFallback }
OpenUnavailable(offset, usedArchive) ==
  [url |-> UrlUsed(usedArchive), available |-> FALSE, items |-> << >>,
   utc_offset_seconds |-> offset, size |-> 0,
   usedArchiveFallback |-> usedArchive]

\* the end of the function, from const time = timeRaw.slice(0, len)
OpenResult(answer, len, usedArchive) ==
  LET offset == OffsetOf(answer)
      r    == toEpochsFromLocalTimes(SubSeq(answer.time, 1, len), offset)
      wspd == sanitize(answer.wspd, len)
      wgst == sanitize(answer.wgst, len)
      prcp == sanitize(answer.prcp, len)
      items == [i \in 1 .. len |->
                  [epoch |-> r.epochs[i], wind_kmh |-> wspd[i],
                   gust_kmh |-> wgst[i], precip_mm |-> prcp[i]]]
  IN IF r.threw
       THEN OpenUnavailable(0, usedArchive)
       ELSE [url |-> UrlUsed(usedArchive), available |-> TRUE, items |-> items,
             utc_offset_seconds |-> offset, size |-> len,
             usedArchiveFallback |-> usedArchive]

\* fetchOpenMeteoHourly: an exception of the first fetch or of res.json()
\* goes to the catch; a non-2xx status leaves json null, len 0
fetchOpenMeteoHourly(primary, archive) ==
  IF primary.kind \in {"throws", "badJson"} THEN OpenUnavailable(0, FALSE)
  ELSE IF HourlyLen(primary) > 0
    THEN OpenResult(primary, HourlyLen(primary), FALSE)
  ELSE IF archive.kind \in {"throws", "httpError", "badJson"}
    THEN OpenUnavailable(0, TRUE)
  ELSE IF HourlyLen(archive) = 0 THEN OpenUnavailable(OffsetOf(archive), TRUE)
  ELSE OpenResult(archive, HourlyLen(archive), TRUE)

\* the requests fetchOpenMeteoHourly sends: the reanalysis URL, then the
\* archive URL if the first answer holds no hour
OpenMeteoAsked(c, primary) ==
  IF primary.kind \in {"throws", "badJson"} \/ HourlyLen(primary) > 0
    THEN Asked(c, "era5", 1)
    ELSE Asked(Asked(c, "era5", 1), "archive", 1)

---------------------------------------------------------------------------
(* thunder.ts: the three thunder fetchers *)

\* prev + (Number.isFinite(Number(c)) ? Number(c) : 0), c = item.count ?? 0
CountOf(c) == IF c.k = "num" THEN c.v ELSE 0

\* the loop over the items of the lightning feed; an item is [ts, c], ts the
\* instant Date.parse gives its time (NaNEpoch if it does not parse) and
\* hasTs whether the item has a time at all
RECURSIVE deaLoop(_, _)
deaLoop(counts, items) ==
  IF Len(items) = 0 THEN counts
  ELSE
    LET item == items[1]
        epochHour == EpochHour(item.ts)
        prev == IF epochHour \in DOMAIN counts THEN counts[epochHour] ELSE 0
    IN IF ~item.hasTs \/ item.ts = NaNEpoch THEN deaLoop(counts, Tail(items))
       ELSE deaLoop(MapSet(counts, epochHour, prev + CountOf(item.c)),
                    Tail(items))

\* fetchIpmaDeaLast24h: the first candidate URL that answers with JSON
\* decides; a JSON value that is no list gives an empty map
RECURSIVE fetchIpmaDeaLast24h(_)
fetchIpmaDeaLast24h(answers) ==
  IF Len(answers) = 0 THEN << >>
  ELSE IF answers[1].kind \in {"throws", "httpError", "badJson"}
    THEN fetchIpmaDeaLast24h(Tail(answers))
  ELSE IF answers[1].kind = "notList" THEN << >>
  ELSE deaLoop(<< >>, answers[1].items)

\* the requests fetchIpmaDeaLast24h sends: the candidate URLs in turn, up
\* to the first that answers with JSON
DeaAsked(c, answers) ==
  IF answers[1].kind \in {"throws", "httpError", "badJson"}
    THEN Asked(Asked(c, "lightning.last24h", 1), "lightning.observations", 1)
    ELSE Asked(c, "lightning.last24h", 1)

\* [A-Z]{4} at position i
FourUpper(s, i) ==
  i + 3 <= Len(s) /\ \A k \in 0 .. 3 : s[i + k] \in UpperChars

\* \s*([A-Z]{4})\s from position i
RECURSIVE SpacesThenStation(_, _)
SpacesThenStation(s, i) ==
  \/ FourUpper(s, i) /\ i + 4 <= Len(s) /\ IsSpaceChar(s[i + 4])
  \/ i <= Len(s) /\ IsSpaceChar(s[i]) /\ SpacesThenStation(s, i + 1)

\* /^(METAR|SPECI)?\s*([A-Z]{4})\s/
ReStationLine(s) ==
  \/ SpacesThenStation(s, 1)
  \/ \E w \in {<<"M", "E", "T", "A", "R">>, <<"S", "P", "E", "C", "I">>} :
       MatchAt(s, 1, w) /\ SpacesThenStation(s, 6)

\* \d{6}Z at position i
SixDigitsZ(s, i) ==
  /\ i + 6 <= Len(s)
  /\ \A k \in 0 .. 5 : s[i + k] \in DigitChars
  /\ s[i + 6] = "Z"

\* /^[A-Z]{4}\s\d{6}Z/
ReStationTime(s) ==
  FourUpper(s, 1) /\ 5 <= Len(s) /\ IsSpaceChar(s[5]) /\ SixDigitsZ(s, 6)

\* fetchOgimetMetarRange: the trimmed, non-empty lines of the text that
\* look like a report
fetchOgimetMetarRange(answer) ==
  IF answer.kind # "text" THEN << >>
  ELSE SelectSeq(answer.lines, LAMBDA l : ReStationLine(l) \/ ReStationTime(l))

\* fetchNoaaMetarRange: raws.map((raw, i) => ({ raw, time: times[i] ?? '' }));
\* a time is kept as the instant Date.parse gives it
fetchNoaaMetarRange(answer) ==
  IF answer.kind # "text" THEN << >>
  ELSE [i \in DOMAIN answer.raws |->
          [raw |-> answer.raws[i],
           time |-> IF i \in DOMAIN answer.times THEN answer.times[i]
                    ELSE NaNEpoch]]

---------------------------------------------------------------------------
(* +server.ts: the helpers of GET *)

\* ymd(date) of $lib/time, called without its tz argument: the calendar
\* date in the server's own time zone
ymd(dateMs) == CivilFromDays(DayOf(dateMs + serverOffset * 1000))

\* clampToDateRangeInclusive: ymd of 00:00 UTC of the UTC date
clampToDateRangeInclusive(dateMs) == ymd((dateMs \div DayMs) * DayMs)

\* estimateOffsetSecondsAtMidnightUTC: the hour of the Lisbon wall clock
estimateOffsetSecondsAtMidnightUTC(dateMs) ==
  (MsOfDay(dateMs + LisbonOffsetSeconds(dateMs) * 1000) \div HourMs) * 3600

\* a comparison of a number that may be NaN or undefined: false for those
Between(x, lo, hi) == x.k = "num" /\ x.v > lo /\ x.v < hi

inferDistritoFromLatLon(lat, lon) ==
  IF Between(lat, 40950, 41050) /\ Between(lon, -8800, -8500) THEN TxtAveiro
  ELSE IF Between(lat, 41100, 41300) /\ Between(lon, -8750, -8450) THEN TxtPorto
  ELSE IF Between(lat, 38600, 38900) /\ Between(lon, -9300, -9000) THEN TxtLisboa
  ELSE IF Between(lat, 36900, 37200) /\ Between(lon, -8100, -7800)
    THEN <<"F", "a", "r", "o">>
  ELSE << >>

DistritoOfAdminOnly(p) == IF Len(p.admin1) > 0 THEN p.admin1 ELSE TxtPorto

\* place.admin1 || inferDistritoFromLatLon(place.lat, place.lon) || 'Porto'
DistritoOf(p) ==
  IF Len(p.admin1) > 0 THEN p.admin1
  ELSE IF Len(inferDistritoFromLatLon(p.lat, p.lon)) > 0
    THEN inferDistritoFromLatLon(p.lat, p.lon)
  ELSE TxtPorto

\* AIRPORTS_PT, the coordinates in thousandths of a degree
AIRPORTS_PT ==
  << [icao |-> "LPPR", lat |-> 41235, lon |-> -8678],
     [icao |-> "LPPT", lat |-> 38781, lon |-> -9135],
     [icao |-> "LPFR", lat |-> 37015, lon |-> -7971],
     [icao |-> "LPBJ", lat |-> 38078, lon |-> -7932],
     [icao |-> "LPOV", lat |-> 40272, lon |-> -7479] >>

\* haversine orders the airports as the squared chord does; over the
\* latitudes of Portugal cos(lat1) cos(lat2) is 0.58 to 0.66, taken as 0.6,
\* and the differences are taken in hundredths of a degree
haversine(lat1, lon1, lat2, lon2) ==
  LET dLat == (lat2 - lat1) \div 10
      dLon == (lon2 - lon1) \div 10
  IN 10 * dLat * dLat + 6 * dLon * dLon

\* nearestIcao: the first airport of the least distance; a NaN or
\* undefined coordinate makes every distance NaN and leaves the first
nearestIcao(lat, lon) ==
  IF lat.k # "num" \/ lon.k # "num" THEN AIRPORTS_PT[1].icao
  ELSE
    LET d(i) == haversine(lat.v, lon.v, AIRPORTS_PT[i].lat, AIRPORTS_PT[i].lon)
        best == CHOOSE i \in DOMAIN AIRPORTS_PT :
                  /\ \A j \in DOMAIN AIRPORTS_PT : d(i) <= d(j)
                  /\ \A j \in 1 .. i - 1 : d(j) > d(i)
    IN AIRPORTS_PT[best].icao

\* the value of a digit character
DigitVal(c) ==
  CASE c = "0" -> 0 [] c = "1" -> 1 [] c = "2" -> 2 [] c = "3" -> 3
    [] c = "4" -> 4 [] c = "5" -> 5 [] c = "6" -> 6 [] c = "7" -> 7
    [] c = "8" -> 8 [] c = "9" -> 9

TwoDigits(s, i) == 10 * DigitVal(s[i]) + DigitVal(s[i + 1])

\* raw.match(/\s(\d{2})(\d{2})(\d{2})Z/): where the first match starts, 0
\* if there is none
DayTimeTokenAt(raw) ==
  LET hits == {i \in DOMAIN raw : IsSpaceChar(raw[i]) /\ SixDigitsZ(raw, i + 1)}
  IN IF hits = {} THEN 0 ELSE CHOOSE i \in hits : \A j \in hits : i <= j

\* the entry of one Ogimet report: the instant is the day, hour and minute
\* of the token in the year and month of ogStart, read by new Date(y, m, dd,
\* hh, MM, 0) as a wall-clock time of the server; the interval's start
\* without a token
OgimetEntry(raw, startMs) ==
  LET i   == DayTimeTokenAt(raw)
      og  == CivilFromDays(DayOf(startMs))
  IN [raw |-> raw,
      epochMs |-> IF i = 0 THEN startMs
                  ELSE DateUTC(og.y, og.m, TwoDigits(raw, i + 1),
                               TwoDigits(raw, i + 3), TwoDigits(raw, i + 5))
                       - serverOffset * 1000]

\* Math.max(0, Math.trunc(c)), c in hundredths
CountValue(c) == IF c <= 0 THEN 0 ELSE (c \div 100) * 100

ThunderFlagMixed(m, epochHour, hasNoaa) ==
  IF epochHour \in DOMAIN m
    THEN [type |-> "flag", value |-> m[epochHour],
          source |-> IF hasNoaa THEN "noaa-adds" ELSE "ogimet"]
    ELSE [type |-> "count", value |-> "null", source |-> "ipma-dea"]

\* thunder: { type: 'flag', value: byHour.get(epochHour) ?? null,
\*            source: thunderUrls.noaa_adds ? 'noaa-adds' : 'ogimet' }
ThunderFlag(m, epochHour, hasNoaa) ==
  [type |-> "flag",
   value |-> IF epochHour \in DOMAIN m THEN m[epochHour] ELSE "null",
   source |-> IF hasNoaa THEN "noaa-adds" ELSE "ogimet"]

\* thunder: { type: 'count', value: Math.max(0, Math.trunc(c)),
\*            source: 'ipma-dea' }, c = countByHour.get(epochHour) ?? 0
ThunderCount(counts, epochHour) ==
  [type |-> "count",
   value |-> Num(CountValue(IF epochHour \in DOMAIN counts
                              THEN counts[epochHour] ELSE 0)),
   source |-> "ipma-dea"]

\* merged[i] = { ...merged[i], thunder }
WithThunder(r, th) ==
  [time |-> r.time, wind_kmh |-> r.wind_kmh, gust_kmh |-> r.gust_kmh,
   precip_mm |-> r.precip_mm, sources |-> r.sources, thunder |-> th]

---------------------------------------------------------------------------
(* Spec: the request handler GET of routes/api/analisar, one step per      *)
(* stretch of code between two awaits, against the answers the upstreams   *)
(* may give.  The station and the reanalysis fetchers run concurrently     *)
(* under Promise.all and settle in either order.                           *)

DateParam(y, m, d) == [given |-> TRUE, valid |-> TRUE, y |-> y, m |-> m, d |-> d]

\* a date parameter that new Date(...) cannot read
BadDateParam == [given |-> TRUE, valid |-> FALSE, y |-> 0, m |-> 0, d |-> 0]

NoDateParam == [given |-> FALSE, valid |-> FALSE, y |-> 0, m |-> 0, d |-> 0]

\* parseFloat(text), numbers counted in thousandths: leading white space is
\* skipped, then a sign, digits, a fraction and an exponent are read, and
\* whatever follows the longest such prefix is ignored
Infinity == [k |-> "inf"]

RECURSIVE ScanDigits(_, _)
ScanDigits(s, i) ==
  IF i <= Len(s) /\ s[i] \in DigitChars THEN ScanDigits(s, i + 1) ELSE i

\* the value of the digits s[i] .. s[j - 1]
RECURSIVE DigitsValue(_, _, _)
DigitsValue(s, i, j) ==
  IF j <= i THEN 0 ELSE 10 * DigitsValue(s, i, j - 1) + DigitVal(s[j - 1])

\* the thousandths the fraction digits s[i] .. s[j - 1] stand for
Thousandths(s, i, j) ==
  (IF i < j THEN 100 * DigitVal(s[i]) ELSE 0)
  + (IF i + 1 < j THEN 10 * DigitVal(s[i + 1]) ELSE 0)
  + (IF i + 2 < j THEN DigitVal(s[i + 2]) ELSE 0)

RECURSIVE Pow10(_)
Pow10(n) == IF n = 0 THEN 1 ELSE 10 * Pow10(n - 1)

\* the number read: the mantissa in thousandths, scaled by the exponent
FloatValue(neg, mant, eNeg, e) ==
  Num((IF neg THEN -1 ELSE 1)
      * (IF eNeg THEN mant \div Pow10(e) ELSE mant * Pow10(e)))

\* the exponent s[j0] .. s[j1 - 1], read only if it has a digit
FloatExponent(s, neg, mant, eNeg, j0, j1) ==
  FloatValue(neg, mant, eNeg, IF j1 > j0 THEN DigitsValue(s, j0, j1) ELSE 0)

\* after the mantissa, which ends before s[i2]: an e or E, a sign, digits
FloatAfterMantissa(s, neg, mant, i2) ==
  IF i2 <= Len(s) /\ s[i2] \in {"e", "E"}
    THEN IF i2 + 1 <= Len(s) /\ s[i2 + 1] \in {"+", "-"}
           THEN FloatExponent(s, neg, mant, s[i2 + 1] = "-", i2 + 2,
                              ScanDigits(s, i2 + 2))
           ELSE FloatExponent(s, neg, mant, FALSE, i2 + 1,
                              ScanDigits(s, i2 + 1))
    ELSE FloatValue(neg, mant, FALSE, 0)

\* the digits s[i0] .. s[i1 - 1], a point and the digits up to s[i2 - 1]:
\* not a number without any digit
FloatMantissa(s, neg, i0, i1, i2) ==
  IF (i1 - i0) + (IF i2 > i1 THEN i2 - (i1 + 1) ELSE 0) = 0 THEN NaN
  ELSE FloatAfterMantissa(s, neg,
         1000 * DigitsValue(s, i0, i1) + Thousandths(s, i1 + 1, i2), i2)

FloatDigits(s, neg, i0, i1) ==
  FloatMantissa(s, neg, i0, i1,
    IF i1 <= Len(s) /\ s[i1] = "." THEN ScanDigits(s, i1 + 1) ELSE i1)

FloatSigned(s, neg, i0) ==
  IF MatchAt(s, i0, <<"I", "n", "f", "i", "n", "i", "t", "y">>) THEN Infinity
  ELSE FloatDigits(s, neg, i0, ScanDigits(s, i0))

FloatTrimmed(s) ==
  FloatSigned(s, Len(s) > 0 /\ s[1] = "-",
              IF Len(s) > 0 /\ s[1] \in {"+", "-"} THEN 2 ELSE 1)

\* parseFloat: leading white space, a sign, Infinity or decimal digits with
\* an optional point and exponent; what follows the number is ignored
parseFloat(text) == FloatTrimmed(TrimStart(text))

\* a lat or lon parameter of the query: !lat is true of the empty text
CoordOf(text) == [given |-> Len(text) > 0, v |-> parseFloat(text)]

\* a lat or lon parameter as parseFloat reads it
Coord(v) == [given |-> TRUE, v |-> Num(v)]

BadCoord == [given |-> TRUE, v |-> NaN]

NoCoord == [given |-> FALSE, v |-> NaN]

Request(localQ, lat, lon, di, df, res) ==
  [localQ |-> localQ, lat |-> lat, lon |-> lon, data_inicio |-> di,
   data_fim |-> df, resolucao |-> res]

\* 2025-05-02, the first day asked for
RequestDay == DaysFromCivil(2025, 5, 2)

\* the day the instants of the handler are counted from, 2025-04-16: the
\* instants formed lie from 1 April to 5 May
HandlerOrigin == DaysFromCivil(2025, 4, 16)

\* 00:00 UTC of the first day asked for
Day0 == (RequestDay - HandlerOrigin) * DayMs

May1 == DateParam(2025, 5, 1)

May2 == DateParam(2025, 5, 2)

May3 == DateParam(2025, 5, 3)

\* lat=41.0, lon=-8.63, 2025-05-02 to 2025-05-03, hourly
ScenarioRequest == Request(<< >>, Coord(41000), Coord(-8630), May2, May3, "hourly")

ValidRequests ==
  { ScenarioRequest,
    \* from the first day of a month: the interval starts in April, UTC
    Request(<< >>, Coord(41000), Coord(-8630), May1, May2, "hourly"),
    Request(<<" ", "P", "O", "R", "T", "O", " ">>, NoCoord, NoCoord, May2, May2,
            "10min"),
    \* local=Braga&lat=95: with a place name the coordinates are not read
    Request(TxtBraga, CoordOf(<<"9", "5">>), NoCoord, May2, May2, "hourly"),
    \* lat=90&lon=-180.0abc: the two bounds, and a text after the number
    Request(<< >>, CoordOf(<<"9", "0">>),
            CoordOf(<<"-", "1", "8", "0", ".", "0", "a", "b", "c">>),
            May2, May2, "hourly") }

InvalidRequests ==
  { Request(<< >>, Coord(41000), Coord(-8630), May2, May3, ""),
    Request(<< >>, Coord(41000), Coord(-8630), May2, May3, "daily"),
    Request(<< >>, Coord(41000), NoCoord, May2, May3, "hourly"),
    Request(<< >>, Coord(95000), Coord(-8630), May2, May3, "hourly"),
    Request(<< >>, Coord(41000), BadCoord, May2, May3, "hourly"),
    Request(<< >>, Coord(41000), Coord(-8630), NoDateParam, May3, "hourly"),
    Request(<< >>, Coord(41000), Coord(-8630), May2, BadDateParam, "hourly"),
    Request(<< >>, Coord(41000), Coord(-8630), May3, May2, "hourly"),
    Request(TxtBraga, NoCoord, NoCoord, BadDateParam, May2, "hourly"),
    \* lat=90.001, lat=-91, lat=1e2, lat=Infinity, lat=abc
    Request(<< >>, CoordOf(<<"9", "0", ".", "0", "0", "1">>), Coord(-8630),
            May2, May3, "hourly"),
    Request(<< >>, CoordOf(<<"-", "9", "1">>), Coord(-8630), May2, May3, "hourly"),
    Request(<< >>, CoordOf(<<"1", "e", "2">>), Coord(-8630), May2, May3, "10min"),
    Request(<< >>, CoordOf(<<"I", "n", "f", "i", "n", "i", "t", "y">>),
            Coord(-8630), May2, May3, "hourly"),
    Request(<< >>, CoordOf(<<"a", "b", "c">>), Coord(-8630), May2, May3, "hourly"),
    \* lon=180.5, lon=-.5e3, lon=., and a bad longitude with a bad date
    Request(<< >>, Coord(41000), CoordOf(<<"1", "8", "0", ".", "5">>),
            May2, May3, "hourly"),
    Request(<< >>, Coord(41000), CoordOf(<<"-", ".", "5", "e", "3">>),
            May2, May3, "hourly"),
    Request(<< >>, Coord(41000), CoordOf(<<".">>), May2, May3, "10min"),
    Request(<< >>, Coord(41000), CoordOf(<<"2", "0", "0">>), BadDateParam, May3,
            "hourly") }

\* the server's time zone: UTC, and UTC-04:00
ServerOffsets == {0, -14400}

\* --- the answers of the upstreams ---

Fails(k) == [kind |-> k]

HandlerGeoAnswers ==
  { [kind |-> "throws", results |-> << >>] }
  \cup { [kind |-> "json", results |-> <<r>>] :
           r \in {g \in GeoResults : g.country_code = "PT" /\ g.population < 300} }

Row(time, ws, wpgt, prcp) == [time |-> time, ws |-> ws, wpgt |-> wpgt, prcp |-> prcp]

Hour0 == LocalTime(2025, 5, 2, 0, 0)

Hour1 == LocalTime(2025, 5, 2, 1, 0)

JsonRows(rows) == [kind |-> "json", data |-> rows]

PointAnswersWithValues ==
  { JsonRows(<<Row(Hour0, Num(1235), Null, Num(0)), Row(Hour1, Null, Num(2000), Null)>>),
    JsonRows(<<Row(Hour0, Str, Null, Str)>>),
    JsonRows(<<Row(EmptyTime, Num(500), Null, Null)>>),
    \* the local hour 01:00 twice, as in the night the clocks go back
    JsonRows(<<Row(Hour0, Num(700), Null, Null), Row(Hour1, Num(900), Null, Null),
               Row(Hour1, Num(1100), Null, Null)>>),
    JsonRows(<<Row(GarbledTime(2025, 5, 2), Num(500), Null, Null),
               Row(Hour0, Num(700), Null, Null)>>) }

PointAnswersWithout ==
  { Fails("throws"), Fails("httpError"), Fails("badJson"), JsonRows(<< >>),
    JsonRows(<<Row(Hour0, Null, Null, Null)>>) }

Station(distance, hourly) == [distance |-> distance, hourly |-> hourly]

Stations(sts) == [kind |-> "json", stations |-> sts]

NearbyAnswers ==
  { Fails("throws"), Fails("httpError"), Fails("badJson"), Stations(<< >>),
    Stations(<<Station(Num(60), JsonRows(<<Row(Hour0, Num(800), Null, Null)>>))>>),
    Stations(<<Station(Null, JsonRows(<<Row(Hour0, Num(800), Null, Null)>>))>>),
    Stations(<<Station(Num(10), Fails("httpError")),
               Station(Num(20), JsonRows(<<Row(Hour1, Num(800), Null, Num(70)),
                                           Row(Hour0, Str, Null, Null)>>)),
               Station(Num(30), JsonRows(<<Row(Hour0, Num(900), Num(1500), Null)>>))>>),
    Stations(<<Station(Num(10), JsonRows(<<Row(Hour0, Num(800), Null, Null)>>)),
               Station(Num(20), Fails("throws"))>>) }

StationAnswers ==
  { [point |-> p, nearby |-> Fails("throws")] : p \in PointAnswersWithValues }
  \cup { [point |-> p, nearby |-> n] : p \in PointAnswersWithout, n \in NearbyAnswers }

Hourly(time, wspd, wgst, prcp, offset) ==
  [kind |-> "json", time |-> time, wspd |-> wspd, wgst |-> wgst, prcp |-> prcp,
   offset |-> offset]

\* no hourly block, the offset alone
HourlyNone(offset) == Hourly(<< >>, << >>, << >>, << >>, offset)

PrimaryAnswers ==
  { Fails("throws"), Fails("httpError"), Fails("badJson"), HourlyNone(Num(3600)),
    Hourly(<<Hour0, Hour1>>, <<Num(881), Null>>, <<Num(4321), Str>>,
           <<Num(0), Num(30)>>, Num(3600)),
    Hourly(<<Hour0, Hour1>>, <<Num(881)>>, <<Num(4321), Num(100)>>,
           <<Num(0), Num(30)>>, Num(3600)),
    Hourly(<<GarbledTime(2025, 5, 2)>>, <<Num(881)>>, <<Null>>, <<Null>>, Num(3600)),
    Hourly(<<DateOnlyTime(2025, 5, 2)>>, <<Num(881)>>, <<Null>>, <<Null>>, Num(3600)) }

ArchiveAnswers ==
  { Fails("throws"), Fails("httpError"), Fails("badJson"), HourlyNone(Null),
    HourlyNone(Num(3600)),
    Hourly(<<Hour0>>, <<Num(500)>>, <<Num(900)>>, <<Null>>, Null) }

OpenAnswers ==
  { [primary |-> p, archive |-> Fails("throws")] :
      p \in {a \in PrimaryAnswers : a.kind \in {"throws", "badJson"} \/ HourlyLen(a) > 0} }
  \cup { [primary |-> p, archive |-> a] :
           p \in {Fails("httpError"), HourlyNone(Num(3600))}, a \in ArchiveAnswers }

DeaItem(hasTs, ts, c) == [hasTs |-> hasTs, ts |-> ts, c |-> c]

DeaList(items) == [kind |-> "list", items |-> items]

\* the interval of a request for 2 May starts at 23:00 UTC of 1 May
DeaAnswers ==
  { <<Fails("throws"), Fails("httpError")>>,
    <<Fails("badJson"), Fails("notList")>>,
    <<DeaList(<< >>), DeaList(<<DeaItem(TRUE, Day0, Num(100))>>)>>,
    <<Fails("throws"), DeaList(<<DeaItem(TRUE, Day0, Num(100))>>)>>,
    <<Fails("httpError"),
      DeaList(<<DeaItem(TRUE, Day0 - 50 * 60000, Num(200)),
                DeaItem(TRUE, Day0 - 40 * 60000, Num(350)),
                DeaItem(TRUE, Day0 + 10 * 60000, Num(-100)),
                DeaItem(TRUE, NaNEpoch, Num(100)),
                DeaItem(FALSE, NaNEpoch, Num(100)),
                DeaItem(TRUE, Day0 + 20 * 60000, Str)>>)>> }

Line(station, rest) == station \o <<" ">> \o rest

TxtLPPR == <<"L", "P", "P", "R">>

\* 012320Z, 020030Z: the 1st at 23:20 and the 2nd at 00:30
Token1 == <<"0", "1", "2", "3", "2", "0", "Z">>

Token2 == <<"0", "2", "0", "0", "3", "0", "Z">>

OgimetAnswers ==
  { Fails("throws"), Fails("httpError"),
    [kind |-> "text", lines |-> << >>],
    [kind |-> "text", lines |-> << <<"#", " ", "N", "I", "L">> >>],
    [kind |-> "text",
     lines |-> << <<"#", " ", "L", "P", "P", "R">>,
                  Line(<<"M", "E", "T", "A", "R">>,
                       Line(TxtLPPR, Line(Token1, <<"V", "C", "T", "S">>))),
                  Line(TxtLPPR, Line(Token2, <<"+", "T", "S", "R", "A">>)),
                  Line(TxtLPPR, <<"R", "A">>) >>] }

NoaaAnswers ==
  { Fails("throws"), Fails("httpError"),
    [kind |-> "text", raws |-> << >>, times |-> << >>],
    [kind |-> "text",
     raws |-> << Line(TxtLPPR, <<"T", "S">>), Line(TxtLPPR, <<"V", "C", "T", "S">>) >>,
     times |-> << Day0 - 40 * 60000 >>] }

FeedItem(region, ph, s, e) ==
  [region |-> region, phenomena |-> ph, s |-> s, e |-> e, nivel |-> "yellow",
   link |-> "https://www.ipma.pt/pt/"]

TxtVento == <<"V", "e", "n", "t", "o">>

HandlerFeeds ==
  { [kind |-> k, items |-> << >>] : k \in {"httpError", "throws", "notList"} }
  \cup { [kind |-> "list", items |-> << >>],
         [kind |-> "list",
          items |-> << FeedItem(TxtAveiro, TxtVento, Day0 - 2 * DayMs, Day0 + 4 * DayMs),
                       FeedItem(TxtPorto, TxtVento, Day0, Day0 + 2 * HourMs),
                       FeedItem(TxtLisboa, TxtVento, Day0, Day0 + 2 * HourMs) >>],
         [kind |-> "list",
          items |-> << FeedItem(TxtAveiro, TxtVento, Day0 + 3 * DayMs, Day0 + 4 * DayMs),
                       FeedItem(TxtPorto, <<"N", "e", "v", "e">>, Day0, Day0 + HourMs) >>] }

\* --- the handler ---

\* what no step of the handler changes
hFixed == <<originDay, t, endEpoch, ei, opts, req, serverOffset, bucket, doc,
            docResponse, upstream>>

hResolve == <<q, geo, netCalls>>

hDates == <<startYMD, endYMD>>

hFetch == <<meteostat, openmeteo, stationDone, openDone>>

hJoin == <<offsetSeconds, timelineEpochs, meteostatIdx, openMap,
           intervalStartMs, intervalEndMs, last24h, nowUTC, icao>>

hThunder == <<entries, byHour, thunderUrls, countByHour>>

hWarn == <<feed, distrito, warnings>>

Init ==
  /\ pc = "GET.validate"
  /\ originDay = HandlerOrigin
  /\ req \in ValidRequests \cup InvalidRequests
  /\ serverOffset \in ServerOffsets
  /\ startYMD = NoDate /\ endYMD = NoDate /\ t = 0 /\ endEpoch = 0
  /\ offsetSeconds = 0 /\ timelineEpochs = << >>
  /\ IdleMerge /\ IdleMetar /\ IdleWarn /\ IdleResolve
  /\ notes = << >> /\ openmeteo = NoOpen
  /\ stationDone = FALSE /\ openDone = FALSE /\ last24h = FALSE /\ nowUTC = 0
  /\ thunderUrls = NoUrls /\ countByHour = << >> /\ icao = ""
  /\ response = NoResponse /\ calls = NoCalls
  /\ bucket = NoBucket /\ doc = NoDoc /\ docResponse = NoResponse
  /\ upstream = NoAnswer

\* return json({ ok: false, error }, { status: 400 })
BadRequest(error) == [status |-> 400, ok |-> FALSE, error |-> error]

\* an exception that leaves GET: the framework answers with status 500
ServerError == [status |-> 500, ok |-> FALSE, error |-> "Internal Error"]

\* the two tests of the query parameters
HValidate ==
  /\ pc = "GET.validate"
  /\ IF \/ (Len(req.localQ) = 0 /\ (~req.lat.given \/ ~req.lon.given))
        \/ ~req.data_inicio.given \/ ~req.data_fim.given \/ req.resolucao = ""
       THEN response' = BadRequest("parametros") /\ pc' = "GET.responded"
     ELSE IF req.resolucao # "hourly" /\ req.resolucao # "10min"
       THEN response' = BadRequest("resolucao") /\ pc' = "GET.responded"
     ELSE /\ response' = response
          /\ pc' = IF Len(req.localQ) > 0 THEN "GET.resolve" ELSE "GET.latlon"
  /\ UNCHANGED <<calls, hFixed, hResolve, place, hDates, hFetch, hJoin, merged, notes,
                 hThunder, hWarn>>

\* const resolved = await resolvePlace(localQ); place = { name, lat, lon, admin1 }
HResolve ==
  /\ pc = "GET.resolve"
  /\ \E answer \in HandlerGeoAnswers :
       LET r == resolvePlace(req.localQ, answer)
       IN /\ q' = req.localQ
          /\ geo' = IF r.calls = 0 THEN geo ELSE answer
          /\ netCalls' = r.calls
          /\ calls' = Asked(calls, "geocoding", r.calls)
          /\ place' = [name |-> r.place.name, lat |-> r.place.lat,
                       lon |-> r.place.lon, admin1 |-> r.place.admin1]
  /\ pc' = "GET.dates"
  /\ UNCHANGED <<hFixed, hDates, hFetch, hJoin, merged, notes, hThunder, hWarn,
                 response>>

OutOfRangeNaNOnly(x, bound) == x.k = "nan"

\* isNaN(x) || x < lo || x > hi
OutOfRange(x, bound) == x.k # "num" \/ x.v < -bound \/ x.v > bound

\* the else branch: parseFloat, the two range tests; the name is the text
\* of the two numbers
HLatLon ==
  /\ pc = "GET.latlon"
  /\ IF OutOfRange(req.lat.v, 90000)
       THEN response' = BadRequest("latitude") /\ pc' = "GET.responded"
            /\ place' = place
     ELSE IF OutOfRange(req.lon.v, 180000)
       THEN response' = BadRequest("longitude") /\ pc' = "GET.responded"
            /\ place' = place
     ELSE /\ place' = [name |-> <<req.lat.v, req.lon.v>>, lat |-> req.lat.v,
                       lon |-> req.lon.v, admin1 |-> << >>]
          /\ response' = response
          /\ pc' = "GET.dates"
  /\ UNCHANGED <<calls, hFixed, hResolve, hDates, hFetch, hJoin, merged, notes,
                 hThunder, hWarn>>

\* new Date(`${data_inicio}T00:00:00Z`).getTime()
DataInicio ==
  IF req.data_inicio.valid
    THEN DateUTC(req.data_inicio.y, req.data_inicio.m, req.data_inicio.d, 0, 0)
    ELSE NaNEpoch

\* new Date(`${data_fim}T23:00:00Z`).getTime()
DataFim ==
  IF req.data_fim.valid
    THEN DateUTC(req.data_fim.y, req.data_fim.m, req.data_fim.d, 23, 0)
    ELSE NaNEpoch

Caveat10min == "Sem suporte 10-min nesta fase; usar horario."

ResolutionNotesNone(resolution_requested) == << >>

\* const notes = []; if (resolution_requested === '10min') notes.push(...)
ResolutionNotes(resolution_requested) ==
  IF resolution_requested = "10min" THEN <<Caveat10min>> ELSE << >>

\* the two tests of the dates, the note on the resolution, startYMD, endYMD
HDates ==
  /\ pc = "GET.dates"
  /\ IF DataInicio = NaNEpoch \/ DataFim = NaNEpoch
       THEN /\ response' = BadRequest("formato de data") /\ pc' = "GET.responded"
            /\ UNCHANGED <<notes, hDates>>
     ELSE IF DataInicio > DataFim
       THEN /\ response' = BadRequest("ordem das datas") /\ pc' = "GET.responded"
            /\ UNCHANGED <<notes, hDates>>
     ELSE /\ notes' = ResolutionNotes(req.resolucao)
          /\ startYMD' = clampToDateRangeInclusive(DataInicio)
          /\ endYMD' = clampToDateRangeInclusive(DataFim)
          /\ response' = response
          /\ pc' = "GET.fetch"
  /\ UNCHANGED <<calls, hFixed, hResolve, place, hFetch, hJoin, merged, hThunder, hWarn>>

\* fetchMeteostatHourly(fetch, place.lat, place.lon, startYMD, endYMD) settles
HStation ==
  /\ pc = "GET.fetch" /\ ~stationDone
  /\ \E a \in StationAnswers :
       /\ meteostat' = fetchMeteostatHourly(a.point, a.nearby)
       /\ calls' = MeteostatAsked(calls, a.point, a.nearby)
  /\ stationDone' = TRUE
  /\ UNCHANGED <<pc, hFixed, hResolve, place, hDates, openmeteo, openDone, hJoin,
                 merged, notes, hThunder, hWarn, response>>

\* fetchOpenMeteoHourly(fetch, place.lat, place.lon, startYMD, endYMD, TZ) settles
HOpen ==
  /\ pc = "GET.fetch" /\ ~openDone
  /\ \E a \in OpenAnswers :
       /\ openmeteo' = fetchOpenMeteoHourly(a.primary, a.archive)
       /\ calls' = OpenMeteoAsked(calls, a.primary)
  /\ openDone' = TRUE
  /\ UNCHANGED <<pc, hFixed, hResolve, place, hDates, meteostat, stationDone,
                 hJoin, merged, notes, hThunder, hWarn, response>>

\* for (const it of openmeteo.items) openMap.set(it.epoch, it)
OpenMapOf(items) ==
  [e \in {items[i].epoch : i \in DOMAIN items} |->
     items[CHOOSE i \in DOMAIN items :
             items[i].epoch = e /\ \A j \in DOMAIN items : items[j].epoch = e => j <= i]]

\* openmeteo.utc_offset_seconds || estimateOffsetSecondsAtMidnightUTC(...)
OffsetSecondsOf(om, s) ==
  IF om.utc_offset_seconds # 0 THEN om.utc_offset_seconds
  ELSE estimateOffsetSecondsAtMidnightUTC(DateUTC(s.y, s.m, s.d, 0, 0))

TimelineOfStationFirst(om, ms, msEpochs, s, e, off) ==
  IF ms.available /\ ms.size > 0 THEN msEpochs
  ELSE IF Len(om.items) > 0 THEN [i \in DOMAIN om.items |-> om.items[i].epoch]
  ELSE generateEpochsForLocalRange(s, e, off)

\* the choice of the timeline: openEpochs if there are any, else msEpochs if
\* meteostatAvailable, else the generated grid
TimelineOf(om, ms, msEpochs, s, e, off) ==
  IF Len(om.items) > 0 THEN [i \in DOMAIN om.items |-> om.items[i].epoch]
  ELSE IF ms.available /\ ms.size > 0 THEN msEpochs
  ELSE generateEpochsForLocalRange(s, e, off)

AnyFulfilled(station, open) == station \/ open

\* await Promise.all([fetchMeteostatHourly(...), fetchOpenMeteoHourly(...)]):
\* the handler goes on when both promises are fulfilled
AllFulfilled(station, open) == station /\ open

EndedMoreThanADayAgoOnly(now, intervalEnd) == now - intervalEnd < DayMs

\* const last24h = nowUTC.getTime() - intervalEndMs <= dayMs
EndedWithinADay(now, intervalEnd) == now - intervalEnd <= DayMs

\* the readings of the clock: during the interval, exactly 24 hours after
\* its end, and one millisecond later
ClockAfterEnd == {-HourMs, DayMs, DayMs + 1}

\* the branches of the join: a throw of toEpochsFromLocalTimes, a throw of
\* mergeByEpoch, or merged, the interval, the clock and the strategy
JoinSettled(off, ms, tl, idx, om, r, first, last) ==
  IF ms.threw
    THEN /\ pc' = "GET.failed" /\ response' = ServerError
         /\ offsetSeconds' = off
         /\ UNCHANGED <<timelineEpochs, meteostatIdx, openMap, icao, merged,
                        notes, intervalStartMs, intervalEndMs, last24h,
                        nowUTC>>
  ELSE IF r.threw
    THEN /\ pc' = "GET.failed" /\ response' = ServerError
         /\ offsetSeconds' = off /\ timelineEpochs' = tl
         /\ meteostatIdx' = idx /\ openMap' = om
         /\ icao' = nearestIcao(place.lat, place.lon)
         /\ UNCHANGED <<merged, notes, intervalStartMs, intervalEndMs,
                        last24h, nowUTC>>
  ELSE /\ offsetSeconds' = off /\ timelineEpochs' = tl
       /\ meteostatIdx' = idx /\ openMap' = om
       /\ icao' = nearestIcao(place.lat, place.lon)
       /\ merged' = r.out
       /\ notes' = IF openmeteo.usedArchiveFallback
                     THEN Append(notes, "Open-Meteo: fallback archive-api")
                     ELSE notes
       /\ intervalStartMs' = first
       /\ intervalEndMs' = last
       /\ \E d \in ClockAfterEnd :
            /\ nowUTC' = last + d
            /\ last24h' = EndedWithinADay(last + d, last)
            /\ pc' = IF EndedWithinADay(last + d, last)
                       THEN "GET.thunder.dea"
                       ELSE "GET.thunder.ogimet"
       /\ response' = response

\* msIndex, openMap, mergeByEpoch and the two ends of the interval
JoinMerged(off, ms, tl, idx, om) ==
  JoinSettled(off, ms, tl, idx, om,
              mergeByEpoch(tl, idx, meteostat, om, NoOpts),
              IF Len(tl) > 0 THEN tl[1] ELSE DataInicio,
              (IF Len(tl) > 0 THEN tl[Len(tl)] ELSE DataFim) + HourMs - 1)

\* the timeline of msEpochs and the reanalysis
JoinTimeline(off, ms) ==
  JoinMerged(off, ms,
             TimelineOf(openmeteo, meteostat, ms.epochs, startYMD, endYMD, off),
             makeIndexMap(ms.epochs), OpenMapOf(openmeteo.items))

\* msEpochs at the offset
JoinEpochs(off) == JoinTimeline(off, toEpochsFromLocalTimes(meteostat.time, off))

\* from the end of Promise.all to the await of the first thunder fetcher:
\* offsetSeconds, msEpochs, the timeline, the index maps, icao, mergeByEpoch,
\* the interval and last24h.  toEpochsFromLocalTimes and mergeByEpoch are
\* called outside any try: what they throw leaves the handler.
HJoin ==
  /\ pc = "GET.fetch" /\ AllFulfilled(stationDone, openDone)
  /\ JoinEpochs(OffsetSecondsOf(openmeteo, startYMD))
  /\ UNCHANGED <<calls, hFixed, hResolve, place, hDates, hFetch, hThunder, hWarn>>

\* the loop that annotates merged with counts
AnnotateCounts(m, tl, counts) ==
  [i \in DOMAIN m |-> WithThunder(m[i], ThunderCount(counts, tl[i]))]

AnnotateFlagsPrimaryTag(m, tl, flags, hasNoaa) ==
  [i \in DOMAIN m |-> WithThunder(m[i], ThunderFlag(flags, tl[i], FALSE))]

\* the loop that annotates merged with flags
AnnotateFlags(m, tl, flags, hasNoaa) ==
  [i \in DOMAIN m |-> WithThunder(m[i], ThunderFlag(flags, tl[i], hasNoaa))]

\* if (last24h): fetchIpmaDeaLast24h and the loop over merged
HThunderDea ==
  /\ pc = "GET.thunder.dea"
  /\ \E answers \in DeaAnswers :
       /\ countByHour' = fetchIpmaDeaLast24h(answers)
       /\ calls' = DeaAsked(calls, answers)
       /\ merged' = AnnotateCounts(merged, timelineEpochs, countByHour')
  /\ thunderUrls' = [thunderUrls EXCEPT !.ipma_dea = TRUE]
  /\ pc' = "GET.warnings"
  /\ UNCHANGED <<hFixed, hResolve, place, hDates, hFetch, hJoin, notes, entries,
                 byHour, hWarn, response>>

\* else: fetchOgimetMetarRange; with reports, metarHoursMap of their entries
\* and the loop over merged; without, on to fetchNoaaMetarRange
HOgimet ==
  /\ pc = "GET.thunder.ogimet"
  /\ \E answer \in OgimetAnswers :
       LET metars == fetchOgimetMetarRange(answer)
           es == [i \in DOMAIN metars |-> OgimetEntry(metars[i], intervalStartMs)]
       IN IF Len(metars) > 0
            THEN /\ entries' = es
                 /\ byHour' = metarHoursMap(es)
                 /\ merged' = AnnotateFlags(merged, timelineEpochs, byHour', FALSE)
                 /\ pc' = "GET.warnings"
            ELSE /\ UNCHANGED <<entries, byHour, merged>>
                 /\ pc' = "GET.thunder.noaa"
  /\ thunderUrls' = [thunderUrls EXCEPT !.ogimet = TRUE]
  /\ calls' = Asked(calls, "ogimet", 1)
  /\ UNCHANGED <<hFixed, hResolve, place, hDates, hFetch, hJoin, notes,
                 countByHour, hWarn, response>>

\* fetchNoaaMetarRange, metarHoursMap of its entries and the loop over merged
HNoaa ==
  /\ pc = "GET.thunder.noaa"
  /\ \E answer \in NoaaAnswers :
       LET adds == fetchNoaaMetarRange(answer)
           es == [i \in DOMAIN adds |-> [raw |-> adds[i].raw, epochMs |-> adds[i].time]]
       IN /\ entries' = es
          /\ byHour' = metarHoursMap(es)
          /\ merged' = AnnotateFlags(merged, timelineEpochs, byHour', TRUE)
  /\ thunderUrls' = [thunderUrls EXCEPT !.noaa_adds = TRUE]
  /\ pc' = "GET.warnings"
  /\ calls' = Asked(calls, "noaa", 1)
  /\ UNCHANGED <<hFixed, hResolve, place, hDates, hFetch, hJoin, notes,
                 countByHour, hWarn, response>>

WarningsAskedAgain(c, answer) ==
  IF answer.kind = "list" THEN Asked(c, "warnings", 1) ELSE Asked(c, "warnings", 2)

\* the request fetchIpmaWarnings sends: one, whatever the answer
WarningsAsked(c, answer) == Asked(c, "warnings", 1)

\* const distrito = ...; const { warnings } = await fetchIpmaWarnings(...)
HWarnings ==
  /\ pc = "GET.warnings"
  /\ distrito' = DistritoOf(place)
  /\ \E answer \in HandlerFeeds :
       /\ feed' = answer
       /\ calls' = WarningsAsked(calls, answer)
       /\ warnings' = fetchIpmaWarnings(answer, DistritoOf(place),
                                        intervalStartMs, intervalEndMs)
  /\ pc' = "GET.respond"
  /\ UNCHANGED <<hFixed, hResolve, place, hDates, hFetch, hJoin, merged, notes,
                 hThunder, response>>

\* JSON.stringify writes NaN as null
JsonNumber(x) == IF x.k = "nan" THEN Null ELSE x

SeriesJson(m) ==
  [i \in DOMAIN m |->
     [time |-> m[i].time, wind_kmh |-> JsonNumber(m[i].wind_kmh),
      gust_kmh |-> JsonNumber(m[i].gust_kmh),
      precip_mm |-> JsonNumber(m[i].precip_mm),
      sources |-> m[i].sources, thunder |-> m[i].thunder]]

\* return json({ ok: true, ... })
HRespond ==
  /\ pc = "GET.respond"
  /\ response' =
       [status |-> 200, ok |-> TRUE, resolution_requested |-> req.resolucao,
        resolution_used |-> "hourly", tz |-> "Europe/Lisbon",
        series |-> SeriesJson(merged), place |-> place, icao |-> icao,
        warnings |-> warnings, sources_links |-> thunderUrls, notes |-> notes]
  /\ pc' = "GET.responded"
  /\ UNCHANGED <<calls, hFixed, hResolve, place, hDates, hFetch, hJoin, merged, notes,
                 hThunder, hWarn>>

\* the handler has started one of the fetchers or a later stage
PastValidation ==
  \/ pc \notin {"GET.validate", "GET.resolve", "GET.latlon", "GET.dates",
                "GET.responded"}
  \/ pc = "GET.responded" /\ response.status # 400

Next ==
  \/ HValidate \/ HResolve \/ HLatLon \/ HDates \/ HStation \/ HOpen \/ HJoin
  \/ HThunderDea \/ HOgimet \/ HNoaa \/ HWarnings \/ HRespond

Spec == Init /\ [][Next]_vars

---------------------------------------------------------------------------
(* Claims about the handler, checked under Spec *)

\* the handler is past its call of mergeByEpoch, which returned
AfterMerge ==
  \/ pc \in {"GET.thunder.dea", "GET.thunder.ogimet", "GET.thunder.noaa",
             "GET.warnings", "GET.respond"}
  \/ pc = "GET.responded" /\ response.status = 200

\* the thunder annotation has run
AfterThunder ==
  \/ pc \in {"GET.warnings", "GET.respond"}
  \/ pc = "GET.responded" /\ response.status = 200

\* the fields mergeByEpoch gives a record
MergedFields(r) ==
  [time |-> r.time, wind_kmh |-> r.wind_kmh, gust_kmh |-> r.gust_kmh,
   precip_mm |-> r.precip_mm, sources |-> r.sources]

\* C3: whenever mergeByEpoch returns, it has one record per timeline entry
\* in timeline order (as many records as epochs, record i built from epoch
\* i), also for epochs absent from both sources; and the thunder annotation
\* of the handler keeps that length and order, as does the series sent.
C3_OneRecordPerEntry ==
  AfterMerge =>
    /\ Len(merged) = Len(timelineEpochs)
    /\ \A i \in DOMAIN merged :
         MergedFields(merged[i]) =
           MergeRecord(timelineEpochs[i], meteostatIdx, meteostat, openMap, NoOpts)
    /\ AfterThunder => \A i \in DOMAIN merged : "thunder" \in DOMAIN merged[i]
    /\ pc = "GET.responded" =>
         /\ Len(response.series) = Len(timelineEpochs)
         /\ \A i \in DOMAIN merged :
              response.series[i].time = toISOInTZ(timelineEpochs[i])

\* a response on the generated timeline of one day, whose 24 epochs are
\* absent from both sources, annotated with lightning counts
C3_Witness ==
  /\ pc = "GET.responded" /\ response.status = 200
  /\ Len(timelineEpochs) = 24
  /\ Len(response.series) = 24
  /\ \A i \in DOMAIN timelineEpochs :
       timelineEpochs[i] \notin DOMAIN meteostatIdx \cup DOMAIN openMap
  /\ \A i \in DOMAIN response.series :
       response.series[i].thunder.type = "count"
  /\ \E i \in DOMAIN response.series : response.series[i].thunder.value = Num(500)

\* C5: in every ok response each series record carries one thunder
\* evidence, and all records of the response have the same evidence type
\* (count or flag) and the same source tag.
C5_OneEvidenceKind ==
  (pc = "GET.responded" /\ response.status = 200) =>
    /\ response.ok
    /\ \A i \in DOMAIN response.series :
         /\ "thunder" \in DOMAIN response.series[i]
         /\ response.series[i].thunder.type \in {"count", "flag"}
    /\ \A i, j \in DOMAIN response.series :
         /\ response.series[i].thunder.type = response.series[j].thunder.type
         /\ response.series[i].thunder.source = response.series[j].thunder.source

\* a response annotated from the NOAA reports, where one hour has a flag
\* and another has none
C5_Witness ==
  /\ pc = "GET.responded" /\ response.status = 200
  /\ thunderUrls.noaa_adds
  /\ \E i, j \in DOMAIN response.series :
       /\ response.series[i].thunder.value = "TS"
       /\ response.series[j].thunder.value = "null"
       /\ response.series[i].thunder.source = "noaa-adds"

\* the request passed validation and the handler has ended
EndedValidated ==
  pc \in {"GET.responded", "GET.failed"} /\ response.status # 400

\* C8 (as claimed): for every request that passes validation and every
\* combination of upstream outcomes, the handler ends with an ok:true response.
C8_AlwaysOk == EndedValidated => response.ok

\* a number within [-bound, bound], in thousandths
NumberWithin(x, bound) == x.k = "num" /\ -bound <= x.v /\ x.v <= bound

\* explicit coordinates and no place name, the latitude not a number in
\* [-90, 90] or the longitude not a number in [-180, 180]
BadCoordinates ==
  /\ Len(req.localQ) = 0
  /\ ~NumberWithin(req.lat.v, 90000) \/ ~NumberWithin(req.lon.v, 180000)

\* C12: a request with explicit coordinates and no place name whose latitude
\* is not a number in [-90, 90] or whose longitude is not a number in
\* [-180, 180] is rejected with status 400 and ok:false: no fetcher is
\* started, no series is computed, and the rejection ends the request.
C12_BadCoordinatesRejected ==
  BadCoordinates =>
    /\ ~PastValidation
    /\ ~stationDone /\ ~openDone /\ netCalls = 0 /\ merged = << >>
    /\ pc = "GET.responded" =>
         (response.status = 400 /\ ~response.ok /\ ~ENABLED Next)

\* lat=90.001 was rejected at the test of the latitude
C12_Witness ==
  /\ pc = "GET.responded"
  /\ req.lat.v = Num(90001) /\ req.lon.v = Num(-8630)
  /\ response = BadRequest("latitude")

\* the request was answered with ok:true
AnsweredOk == pc = "GET.responded" /\ response.status = 200

\* the response carries the hourly series, one record per hour of the
\* timeline, and says so
HourlySeries ==
  /\ response.resolution_used = "hourly"
  /\ response.series = SeriesJson(merged)
  /\ Len(response.series) = Len(timelineEpochs)

\* C13 (as claimed): for every requested resolution value other than hourly
\* the request is not rejected: the hourly series is computed and returned
\* with resolution_used = hourly and a caveat in notes.
C13_ResolutionAsClaimed ==
  (pc = "GET.responded" /\ req.resolucao \notin {"", "hourly"}) =>
    /\ response # BadRequest("resolucao")
    /\ response.status = 200 =>
         (HourlySeries /\ Caveat10min \in Range(response.notes))

\* C13 (amended): the only resolution value other than hourly that is
\* accepted is 10min; for it every ok:true response carries the hourly
\* series, resolution_used = hourly and the caveat in notes, and for hourly
\* it carries no caveat; any other value is rejected with status 400 before
\* anything is fetched.
C13_ResolutionAmended ==
  /\ (AnsweredOk /\ req.resolucao = "10min") =>
       /\ HourlySeries
       /\ response.resolution_requested = "10min"
       /\ Caveat10min \in Range(response.notes)
  /\ (AnsweredOk /\ req.resolucao = "hourly") =>
       (HourlySeries /\ Caveat10min \notin Range(response.notes))
  /\ AnsweredOk => req.resolucao \in {"hourly", "10min"}
  /\ req.resolucao \notin {"hourly", "10min"} =>
       /\ ~PastValidation /\ netCalls = 0 /\ ~stationDone /\ ~openDone
       /\ pc = "GET.responded" => (response.status = 400 /\ ~response.ok)

\* a 10min request answered with the caveat and a series of hours
C13_Witness ==
  /\ AnsweredOk /\ req.resolucao = "10min"
  /\ response.resolution_used = "hourly"
  /\ Caveat10min \in Range(response.notes)
  /\ Len(response.series) > 0

\* the scenario: the request lat=41.0, lon=-8.63, 2025-05-02 to 2025-05-03,
\* hourly, and both fetchers returned empty
Scenario ==
  /\ req = ScenarioRequest
  /\ pc \in {"GET.responded", "GET.failed"}
  /\ meteostat.size = 0 /\ openmeteo.size = 0

\* ok:true, 48 records of the generated timeline, all values and tags null
ScenarioSeries ==
  /\ pc = "GET.responded" /\ response.ok
  /\ Len(response.series) = 48
  /\ timelineEpochs = generateEpochsForLocalRange(startYMD, endYMD, 3600)
  /\ \A i \in DOMAIN response.series :
       LET r == response.series[i]
       IN /\ r.time = toISOInTZ(timelineEpochs[i])
          /\ r.wind_kmh = Null /\ r.gust_kmh = Null /\ r.precip_mm = Null
          /\ r.sources = [wind |-> "null", gust |-> "null", precip |-> "null"]
  /\ \A i \in 1 .. 47 : timelineEpochs[i + 1] = timelineEpochs[i] + HourMs

\* C9 (as claimed): in the scenario the response has ok:true, 48 records
\* from the generated timeline, every value and source tag null, and an
\* empty warnings list.
C9_ScenarioAsClaimed ==
  Scenario => (ScenarioSeries /\ response.warnings = << >>)

\* C9 (amended): in the scenario the response has ok:true, 48 records from
\* the generated timeline, every value and source tag null, and as warnings
\* what the warnings feed holds for the district Aveiro within the interval:
\* none when the feed fails or has no such entry.
C9_ScenarioAmended ==
  Scenario =>
    /\ ScenarioSeries
    /\ distrito = TxtAveiro
    /\ response.warnings =
         fetchIpmaWarnings(feed, TxtAveiro, intervalStartMs, intervalEndMs)
    /\ (feed.kind # "list" \/ Len(feed.items) = 0) => response.warnings = << >>
    /\ \A i \in DOMAIN response.warnings :
         \E k \in DOMAIN feed.items :
           /\ feed.items[k].region = TxtAveiro
           /\ feed.items[k].s <= intervalEndMs
           /\ feed.items[k].e >= intervalStartMs

\* the scenario answered with a warning of the feed for Aveiro
C9_Witness ==
  /\ Scenario
  /\ pc = "GET.responded"
  /\ Len(response.series) = 48
  /\ Len(response.warnings) = 1


\* the requests sent to the two URLs of the lightning feed
LightningAsked == calls["lightning.last24h"] + calls["lightning.observations"]

\* the three documented fallbacks: the second tier is asked only after the
\* first, each URL once, and the stations of the nearby answer once each
DocumentedFallbacks ==
  /\ calls["point"] <= 1 /\ calls["nearby"] <= calls["point"]
  /\ calls["stations.hourly"] > 0 => calls["nearby"] = 1
  /\ calls["era5"] <= 1 /\ calls["archive"] <= calls["era5"]
  /\ calls["ogimet"] <= 1 /\ calls["noaa"] <= calls["ogimet"]

\* C14 (as claimed): beyond the three documented fallbacks no upstream is
\* asked again: the geocoder, the lightning feed and the warnings feed are
\* each queried at most once, at a single endpoint.
C14_NoRetryAsClaimed ==
  /\ DocumentedFallbacks
  /\ calls["geocoding"] <= 1 /\ calls["geocoding"] = netCalls
  /\ LightningAsked <= 1
  /\ calls["warnings"] <= 1

\* C14 (amended): there is a fourth two-tier fallback, from the first URL of
\* the lightning feed to its second URL; each of the two is asked at most
\* once, the second only after the first, and the lightning feed is not asked
\* at all when the METAR archives are.  The geocoder and the warnings feed
\* are asked at most once each.
C14_NoRetryAmended ==
  /\ DocumentedFallbacks
  /\ calls["geocoding"] <= 1 /\ calls["geocoding"] = netCalls
  /\ calls["lightning.last24h"] <= 1
  /\ calls["lightning.observations"] <= calls["lightning.last24h"]
  /\ LightningAsked > 0 => calls["ogimet"] = 0
  /\ calls["warnings"] <= 1
  /\ pc = "GET.responded" /\ response.status = 200 => calls["warnings"] = 1

\* a request answered after the geocoder, both URLs of the lightning feed
\* and the warnings feed were asked
C14_Witness ==
  /\ AnsweredOk
  /\ calls["geocoding"] = 1
  /\ calls["lightning.last24h"] = 1 /\ calls["lightning.observations"] = 1
  /\ calls["warnings"] = 1

\* the request has ended: with a response of the handler, or with the
\* response the framework makes of an exception
Ended == pc \in {"GET.responded", "GET.failed"}

\* each upstream call returns or fails, and the handler then runs on: weak
\* fairness of Next, WF_vars(Next), written out with Ended for the states
\* where no step is enabled
SpecLive == Init /\ [][Next]_vars /\ ([]<>Ended \/ []<><<Next>>_vars)

\* the most stations within 50 km an answer of the nearby query lists
MaxStationsListed ==
  LET counts == {Len(SelectSeq(n.stations, Within50)) :
                   n \in {a \in NearbyAnswers : a.kind = "json"}}
  IN CHOOSE m \in counts : \A k \in counts : k <= m

\* all the requests sent so far
RECURSIVE SumCalls(_)
SumCalls(S) ==
  IF S = {} THEN 0
  ELSE LET u == CHOOSE x \in S : TRUE IN calls[u] + SumCalls(S \ {u})

\* no URL is asked twice, but the stations' hourly URL, asked once for each
\* station the nearby answer lists; at most eight other requests are sent
CallsBounded ==
  /\ \A u \in Upstreams \ {"stations.hourly"} : calls[u] <= 1
  /\ calls["stations.hourly"] <= MaxStationsListed
  /\ SumCalls(Upstreams) <= 8 + MaxStationsListed

\* C15: under the assumption that every upstream call returns or fails,
\* every request ends with a response, and on the way the number of upstream
\* calls is bounded: no call is issued again until it succeeds.
C15_BoundedCallsThenResponse == []CallsBounded /\ <>Ended

\* a request answered after the point query, the nearby query, the hourly
\* query of three stations, both reanalysis URLs, both METAR archives and
\* the warnings feed
C15_Witness ==
  /\ AnsweredOk
  /\ calls["point"] = 1 /\ calls["nearby"] = 1 /\ calls["stations.hourly"] = 3
  /\ calls["era5"] = 1 /\ calls["archive"] = 1
  /\ calls["ogimet"] = 1 /\ calls["noaa"] = 1 /\ calls["warnings"] = 1

---------------------------------------------------------------------------
(* SpecDoc: the request handler GET of routes/api/analisar.docx, which     *)
(* asks /api/analisar of the same server (the steps of GET above), builds  *)
(* the report and, where the deployment binds a bucket R2_REPORTS, stores  *)
(* it there.  The bucket is the one store that lasts beyond a request.     *)

\* `reports/relatorio-meteo-${lat}-${lon}-${data_inicio}-${data_fim}.docx`,
\* lat and lon being the query parameters, null without them
ReportKey(r) ==
  [lat |-> r.lat, lon |-> r.lon, data_inicio |-> r.data_inicio,
   data_fim |-> r.data_fim]

\* buildReport({ local, period, series, warnings, sources_links }): the
\* document is kept by what it is built from
ReportOf(r, analysis) ==
  [built |-> TRUE,
   lat |-> IF r.lat.given THEN r.lat.v ELSE analysis.place.lat,
   lon |-> IF r.lon.given THEN r.lon.v ELSE analysis.place.lon,
   label |-> analysis.place.name, series |-> analysis.series,
   warnings |-> analysis.warnings, sources_links |-> analysis.sources_links]

\* a report stored by an earlier request
OldReport == [built |-> TRUE, label |-> TxtLisboa]

PortoRequest ==
  Request(<<" ", "P", "O", "R", "T", "O", " ">>, NoCoord, NoCoord, May2, May2,
          "10min")

DocRequests ==
  { ScenarioRequest, PortoRequest,
    Request(<< >>, Coord(41000), Coord(-8630), May2, May3, ""),
    Request(<< >>, Coord(41000), NoCoord, May2, May3, "hourly"),
    Request(<< >>, Coord(41000), Coord(-8630), May2, May3, "daily"),
    Request(<< >>, Coord(95000), Coord(-8630), May2, May3, "hourly") }

\* a deployment without a bucket, and a bucket that holds an earlier report
\* under the key of a request for a place by name on 2025-05-02
DocBuckets ==
  { NoBucket,
    [bound |-> TRUE, objects |-> (ReportKey(PortoRequest) :> OldReport)] }

\* what the steps of analisar.docx leave alone: the state of /api/analisar
docOthers ==
  <<originDay, startYMD, endYMD, offsetSeconds, t, endEpoch, timelineEpochs,
    mergeVars, metarVars, warnVars, resolveVars, req, serverOffset, notes,
    openmeteo, stationDone, openDone, last24h, nowUTC, thunderUrls,
    countByHour, icao,
    response, calls, upstream>>

DocInit ==
  /\ pc = "DOC.start"
  /\ originDay = HandlerOrigin
  /\ req \in DocRequests
  /\ serverOffset = 0
  /\ startYMD = NoDate /\ endYMD = NoDate /\ t = 0 /\ endEpoch = 0
  /\ offsetSeconds = 0 /\ timelineEpochs = << >>
  /\ IdleMerge /\ IdleMetar /\ IdleWarn /\ IdleResolve
  /\ notes = << >> /\ openmeteo = NoOpen
  /\ stationDone = FALSE /\ openDone = FALSE /\ last24h = FALSE /\ nowUTC = 0
  /\ thunderUrls = NoUrls /\ countByHour = << >> /\ icao = ""
  /\ response = NoResponse /\ calls = NoCalls
  /\ bucket \in DocBuckets /\ doc = NoDoc /\ docResponse = NoResponse
  /\ upstream = NoAnswer

\* catch (err): new Response(JSON.stringify({ ok: false, error }), { status: 400 })
DocError(error) == [status |-> 400, ok |-> FALSE, error |-> error]

\* required(url, key) for the dates and the resolution, the test of local or
\* lat and lon, and the request sent to /api/analisar
DocStart ==
  /\ pc = "DOC.start"
  /\ IF \/ ~req.data_inicio.given \/ ~req.data_fim.given \/ req.resolucao = ""
        \/ (Len(req.localQ) = 0 /\ (~req.lat.given \/ ~req.lon.given))
       THEN docResponse' = DocError("Missing") /\ pc' = "DOC.responded"
       ELSE docResponse' = docResponse /\ pc' = "GET.validate"
  /\ UNCHANGED <<bucket, doc, docOthers>>

\* the answer of /api/analisar: passed on if it is not ok, else buildReport
DocAnalysed ==
  /\ pc \in {"GET.responded", "GET.failed"}
  /\ IF response.status # 200
       THEN /\ docResponse' = [status |-> response.status, ok |-> FALSE,
                               error |-> response.error]
            /\ doc' = doc
            /\ pc' = "DOC.responded"
       ELSE \E outcome \in {"built", "throws"} :
              IF outcome = "built"
                THEN /\ doc' = ReportOf(req, response)
                     /\ docResponse' = docResponse
                     /\ pc' = "DOC.built"
                ELSE /\ doc' = doc
                     /\ docResponse' = DocError("buildReport")
                     /\ pc' = "DOC.responded"
  /\ UNCHANGED <<bucket, docOthers>>

ReportStoredNowhere(b, r, d) == b

\* await r2.put(key, new Uint8Array(arrayBuffer), ...): the bucket after it
ReportStored(b, r, d) ==
  [b EXCEPT !.objects = MapSet(@, ReportKey(r), d)]

\* const r2 = platform?.env?.R2_REPORTS; if (r2 && typeof r2.put === 'function')
\* the report is put into the bucket, which may fail; without a bucket the
\* document is returned at once
DocBuilt ==
  /\ pc = "DOC.built"
  /\ IF bucket.bound
       THEN \E outcome \in {"stored", "throws"} :
              IF outcome = "stored"
                THEN /\ bucket' = ReportStored(bucket, req, doc)
                     /\ docResponse' = docResponse
                     /\ pc' = "DOC.stored"
                ELSE /\ bucket' = bucket
                     /\ docResponse' = DocError("put")
                     /\ pc' = "DOC.responded"
       ELSE /\ bucket' = bucket
            /\ docResponse' = [status |-> 200, ok |-> TRUE, body |-> doc]
            /\ pc' = "DOC.responded"
  /\ UNCHANGED <<doc, docOthers>>

\* return new Response(new Uint8Array(arrayBuffer), { headers })
DocRespond ==
  /\ pc = "DOC.stored"
  /\ docResponse' = [status |-> 200, ok |-> TRUE, body |-> doc]
  /\ pc' = "DOC.responded"
  /\ UNCHANGED <<bucket, doc, docOthers>>

DocNext == DocStart \/ DocAnalysed \/ DocBuilt \/ DocRespond \/ Next

SpecDoc == DocInit /\ [][DocNext]_vars

\* C16 (as claimed): nothing a request creates outlives it: serving an
\* analysis request or a document request leaves every store unchanged.
C16_StoresUnchangedAsClaimed == [][bucket' = bucket]_vars

\* C16 (amended): the one thing that outlives a request is the report the
\* document endpoint puts into the bucket R2_REPORTS where one is bound:
\* only that step changes the bucket, and only at the key made of the
\* request's lat, lon and dates, replacing what was stored there; the
\* analysis endpoint and a deployment without a bucket keep nothing.
C16_OnlyTheReportIsKept ==
  /\ [][bucket' # bucket =>
          /\ pc = "DOC.built" /\ bucket.bound /\ doc.built
          /\ bucket'.bound
          /\ DOMAIN bucket'.objects = DOMAIN bucket.objects \cup {ReportKey(req)}
          /\ bucket'.objects[ReportKey(req)] = doc
          /\ \A k \in DOMAIN bucket.objects \ {ReportKey(req)} :
               bucket'.objects[k] = bucket.objects[k]]_vars
  /\ [](~bucket.bound => bucket = NoBucket)
  /\ []((pc = "DOC.responded" /\ docResponse.status = 200 /\ bucket.bound) =>
          (ReportKey(req) \in DOMAIN bucket.objects
           /\ bucket.objects[ReportKey(req)] = doc))

\* the document of the request for Porto was returned, and it has replaced
\* the earlier report stored under the same key
C16_Witness ==
  /\ pc = "DOC.responded" /\ docResponse.status = 200
  /\ req = PortoRequest
  /\ bucket.bound /\ bucket.objects[ReportKey(req)] = doc
  /\ doc # OldReport

\* the stages of GET that follow the choice of the thunder strategy
StrategyChosen ==
  \/ pc \in {"GET.thunder.dea", "GET.thunder.ogimet", "GET.thunder.noaa",
             "GET.warnings", "GET.respond"}
  \/ pc = "GET.responded" /\ response.status = 200

\* C17: the thunder strategy is chosen once per request: with intervalEnd
\* the last epoch of the timeline + 3,600,000 ms - 1 ms, lightning counts
\* are used if and only if now - intervalEnd <= 24 h, the boundary
\* included, and METAR flags otherwise.
C17_ThunderStrategyRule ==
  /\ [](StrategyChosen =>
          /\ Len(timelineEpochs) > 0
          /\ intervalEndMs = timelineEpochs[Len(timelineEpochs)] + 3600000 - 1
          /\ last24h = (nowUTC - intervalEndMs <= 24 * HourMs)
          /\ pc = "GET.thunder.dea" => last24h
          /\ pc \in {"GET.thunder.ogimet", "GET.thunder.noaa"} => ~last24h
          /\ last24h => calls["ogimet"] + calls["noaa"] = 0
          /\ ~last24h => LightningAsked = 0
          /\ pc \in {"GET.warnings", "GET.respond", "GET.responded"} =>
               /\ \A i \in DOMAIN merged :
                    merged[i].thunder.type = IF last24h THEN "count" ELSE "flag"
               /\ thunderUrls.ipma_dea = last24h
               /\ thunderUrls.ogimet = ~last24h
               /\ LightningAsked > 0 <=> last24h
               /\ calls["ogimet"] > 0 <=> ~last24h)
  /\ [][(last24h' # last24h \/ nowUTC' # nowUTC) => pc = "GET.fetch"]_vars

\* an interval that ended exactly 24 hours before the clock was read, served
\* with lightning counts
C17_Witness ==
  /\ pc = "GET.responded" /\ response.status = 200
  /\ nowUTC - intervalEndMs = DayMs
  /\ last24h /\ Len(merged) > 0
  /\ \A i \in DOMAIN response.series : response.series[i].thunder.type = "count"

\* the requests sent so far to the upstreams of a stage
AskedOf(c, upstreams) == [u \in upstreams |-> c[u]]

StationUpstreams == {"point", "nearby", "stations.hourly"}

ReanalysisUpstreams == {"era5", "archive"}

ThunderUpstreams ==
  {"lightning.last24h", "lightning.observations", "ogimet", "noaa"}

Annotated(m) == \A i \in DOMAIN m : "thunder" \in DOMAIN m[i]

\* C18: the station fetcher and the reanalysis fetcher are issued together
\* and joined: either may complete first, the merge starts only after both
\* have completed, thunder annotation only after the merge, the warnings
\* fetch only after thunder annotation, and what the handler goes on with
\* does not depend on which fetcher completed first.
C18_ConcurrentFetchThenSequence ==
  \* both are pending at once, and either may complete first
  /\ []((pc = "GET.fetch" /\ ~stationDone) => ENABLED HStation)
  /\ []((pc = "GET.fetch" /\ ~openDone) => ENABLED HOpen)
  \* the completion of one leaves the other's result and requests alone
  /\ [][stationDone' # stationDone =>
          /\ pc' = pc /\ openmeteo' = openmeteo /\ openDone' = openDone
          /\ AskedOf(calls', Upstreams \ StationUpstreams)
               = AskedOf(calls, Upstreams \ StationUpstreams)]_vars
  /\ [][openDone' # openDone =>
          /\ pc' = pc /\ meteostat' = meteostat /\ stationDone' = stationDone
          /\ AskedOf(calls', Upstreams \ ReanalysisUpstreams)
               = AskedOf(calls, Upstreams \ ReanalysisUpstreams)]_vars
  \* the two completions commute on the requests counted
  /\ []((pc = "GET.fetch" /\ ~stationDone /\ ~openDone) =>
          \A a \in StationAnswers, b \in OpenAnswers :
            OpenMeteoAsked(MeteostatAsked(calls, a.point, a.nearby), b.primary)
              = MeteostatAsked(OpenMeteoAsked(calls, b.primary), a.point,
                               a.nearby))
  \* the merge starts only after both have completed
  /\ [][pc = "GET.fetch" /\ pc' # "GET.fetch" => stationDone /\ openDone]_vars
  /\ [][(merged' # merged \/ timelineEpochs' # timelineEpochs) =>
          stationDone /\ openDone]_vars
  /\ [](pc = "GET.fetch" =>
          merged = << >> /\ timelineEpochs = << >>
          /\ \A u \in ThunderUpstreams \cup {"warnings"} : calls[u] = 0)
  \* thunder annotation only after the merge, from the merged timeline
  /\ [][AskedOf(calls', ThunderUpstreams) # AskedOf(calls, ThunderUpstreams) =>
          /\ pc \in {"GET.thunder.dea", "GET.thunder.ogimet", "GET.thunder.noaa"}
          /\ Len(merged) = Len(timelineEpochs) /\ calls["warnings"] = 0]_vars
  /\ [](pc \in {"GET.thunder.dea", "GET.thunder.ogimet", "GET.thunder.noaa"} =>
          Len(merged) = Len(timelineEpochs) /\ ~Annotated(merged))
  \* the warnings fetch only after thunder annotation
  /\ [][calls'["warnings"] # calls["warnings"] =>
          pc = "GET.warnings" /\ Annotated(merged)]_vars
  /\ [](pc \in {"GET.warnings", "GET.respond"} => Annotated(merged))
  \* the timeline joined is a function of the two results alone
  /\ [](StrategyChosen =>
          timelineEpochs =
            TimelineOf(openmeteo, meteostat,
                       toEpochsFromLocalTimes(meteostat.time, offsetSeconds).epochs,
                       startYMD, endYMD, offsetSeconds))

\* the reanalysis fetcher has completed with data while the station fetcher
\* is still pending
C18_Witness ==
  /\ pc = "GET.fetch" /\ openDone /\ ~stationDone
  /\ openmeteo.available /\ calls["era5"] = 1 /\ calls["point"] = 0

StrictlyIncreasing(s) == \A i \in 1 .. Len(s) - 1 : s[i] < s[i + 1]

HourAligned(s) == \A i \in DOMAIN s : s[i] % 3600000 = 0

\* C19: the timeline used for the merge in any request is an ordered,
\* strictly increasing sequence of hour-aligned epochs, each a multiple of
\* 3,600,000 ms, whichever source it comes from, and it is not modified
\* after it is chosen.
C19_TimelineOrderedHourly ==
  /\ [](StrategyChosen =>
          StrictlyIncreasing(timelineEpochs) /\ HourAligned(timelineEpochs))
  /\ [][timelineEpochs' # timelineEpochs => pc = "GET.fetch"]_vars

\* const openEpochs = openmeteo.items.map((it) => it.epoch)
OpenEpochs == [i \in DOMAIN openmeteo.items |-> openmeteo.items[i].epoch]

\* const msEpochs = toEpochsFromLocalTimes(meteostat.time..., offsetSeconds)
StationEpochs == toEpochsFromLocalTimes(meteostat.time, offsetSeconds).epochs

Grid == generateEpochsForLocalRange(startYMD, endYMD, offsetSeconds)

ReanalysisGaveData == Len(openmeteo.items) > 0

StationGaveData == meteostat.available /\ meteostat.size > 0

\* C20 (as claimed): the generated grid is the timeline if and only if
\* neither fetcher returned data, and whenever a source returned data, that
\* source's own epochs are the timeline.
C20_GridIffNoDataAsClaimed ==
  StrategyChosen =>
    /\ (~ReanalysisGaveData /\ ~StationGaveData) => timelineEpochs = Grid
    /\ ReanalysisGaveData => timelineEpochs = OpenEpochs
    /\ StationGaveData => timelineEpochs = StationEpochs

\* C20 (amended): the timeline is the reanalysis epochs whenever the
\* reanalysis fetcher returned any item, whatever the station fetcher
\* returned; else the station epochs if the station fetcher returned data;
\* and the generated grid if and only if neither returned data.
C20_GridIffNoDataAmended ==
  StrategyChosen =>
    /\ ReanalysisGaveData => timelineEpochs = OpenEpochs
    /\ (~ReanalysisGaveData /\ StationGaveData) => timelineEpochs = StationEpochs
    /\ (~ReanalysisGaveData /\ ~StationGaveData) => timelineEpochs = Grid
    /\ (ReanalysisGaveData \/ StationGaveData) =>
         /\ Len(timelineEpochs) = IF ReanalysisGaveData THEN Len(openmeteo.items)
                                  ELSE Len(meteostat.time)
         /\ Len(merged) = Len(timelineEpochs)

\* both fetchers returned data, for different hours: the timeline is the
\* reanalysis epochs, not the grid and not the station epochs
C20_Witness ==
  /\ pc = "GET.responded" /\ response.status = 200
  /\ ReanalysisGaveData /\ StationGaveData
  /\ timelineEpochs = OpenEpochs
  /\ timelineEpochs # StationEpochs /\ timelineEpochs # Grid

---------------------------------------------------------------------------
(* SpecFetch: fetchMeteostatHourly and fetchOpenMeteoHourly, each applied  *)
(* to every answer of a bounded family of upstream answers.  upstream      *)
(* keeps the answers, so that a result can be set against them.            *)

\* the most stations a nearby answer lists
MaxStations == 2

RowsNear == <<Row(Hour0, Num(800), Null, Null), Row(Hour1, Null, Null, Num(5))>>

RowsFar ==
  <<Row(Hour1, Num(900), Num(1500), Null), Row(Hour0, Num(700), Blank, Num(70))>>

\* what a stations/hourly request may answer
StationHourlies ==
  { Fails("throws"), Fails("httpError"), Fails("badJson"), JsonRows(<< >>),
    JsonRows(RowsNear), JsonRows(RowsFar) }

\* distances in km: two within 50 km, one beyond, one not given
StationDistances == {Num(10), Num(30), Num(60), Null}

FetchStations ==
  { Station(d, h) : d \in StationDistances, h \in StationHourlies }

FetchNearbyAnswers ==
  { Fails("throws"), Fails("httpError"), Fails("badJson") }
  \cup { Stations(sts) : sts \in SeqsUpTo(FetchStations, MaxStations) }

FetchPointAnswers == PointAnswersWithValues \cup PointAnswersWithout

\* answers of the reanalysis endpoints: failures, no hourly block, arrays of
\* unequal length, and values that are strings, blank or not a number
FetchHourlyAnswers ==
  PrimaryAnswers \cup ArchiveAnswers
  \cup { Hourly(<<Hour0, Hour1>>, <<Blank, Num(881)>>, <<NaN, Str>>,
                <<Null, Num(30)>>, Num(3600)),
         Hourly(<<Hour0, Hour1>>, <<Num(100), Num(200)>>, << >>,
                <<Num(0), Num(30)>>, Num(3600)) }

StationCall(p, n) == [fetcher |-> "station", point |-> p, nearby |-> n]

OpenCall(p, a) == [fetcher |-> "open", primary |-> p, archive |-> a]

\* the nearby answers matter only to a point answer without a value
FetchCalls ==
  { StationCall(p, Fails("throws")) : p \in PointAnswersWithValues }
  \cup { StationCall(p, n) : p \in {Fails("httpError"), JsonRows(<< >>)},
                             n \in FetchNearbyAnswers }
  \cup { StationCall(p, n) : p \in PointAnswersWithout, n \in NearbyAnswers }
  \cup { OpenCall(p, a) : p \in FetchHourlyAnswers, a \in FetchHourlyAnswers }

fetchOthers ==
  <<originDay, startYMD, endYMD, offsetSeconds, t, endEpoch, timelineEpochs,
    meteostatIdx, openMap, opts, merged, metarVars, warnVars, resolveVars, req,
    serverOffset, notes, last24h, nowUTC, thunderUrls, countByHour, icao,
    response, bucket, doc, docResponse, upstream>>

FetchInit ==
  /\ pc = "fetch.call"
  /\ upstream \in FetchCalls
  /\ originDay = HandlerOrigin
  /\ IdleTimeline /\ offsetSeconds = 0 /\ timelineEpochs = << >> /\ IdleMerge
  /\ IdleMetar /\ IdleWarn /\ IdleResolve
  /\ req = NoAnswer /\ serverOffset = 0 /\ notes = << >> /\ openmeteo = NoOpen
  /\ stationDone = FALSE /\ openDone = FALSE /\ last24h = FALSE /\ nowUTC = 0
  /\ thunderUrls = NoUrls /\ countByHour = << >> /\ icao = ""
  /\ response = NoResponse /\ calls = NoCalls
  /\ bucket = NoBucket /\ doc = NoDoc /\ docResponse = NoResponse

\* await fetchMeteostatHourly(...)
FetchStationCall ==
  /\ pc = "fetch.call" /\ upstream.fetcher = "station"
  /\ meteostat' = fetchMeteostatHourly(upstream.point, upstream.nearby)
  /\ calls' = MeteostatAsked(calls, upstream.point, upstream.nearby)
  /\ stationDone' = TRUE
  /\ pc' = "fetch.done"
  /\ UNCHANGED <<openmeteo, openDone, fetchOthers>>

\* await fetchOpenMeteoHourly(...)
FetchOpenCall ==
  /\ pc = "fetch.call" /\ upstream.fetcher = "open"
  /\ openmeteo' = fetchOpenMeteoHourly(upstream.primary, upstream.archive)
  /\ calls' = OpenMeteoAsked(calls, upstream.primary)
  /\ openDone' = TRUE
  /\ pc' = "fetch.done"
  /\ UNCHANGED <<meteostat, stationDone, fetchOthers>>

FetchNext == FetchStationCall \/ FetchOpenCall

SpecFetch == FetchInit /\ [][FetchNext]_vars

\* an answer that is an exception of fetch, a non-2xx status or a body that
\* is not JSON
Failed(answer) == answer.kind \in {"throws", "httpError", "badJson"}

StationCalled == pc = "fetch.done" /\ upstream.fetcher = "station"

OpenCalled == pc = "fetch.done" /\ upstream.fetcher = "open"

\* C21: fetchMeteostatHourly and fetchOpenMeteoHourly never throw: when the
\* upstream fails (HTTP error status, network exception, malformed body)
\* they return available = false with an empty series and size 0; and in
\* every result available is true if and only if size > 0, with every
\* value array of length size.
C21_FetchersTolerateFailure ==
  /\ pc = "fetch.call" => ENABLED FetchNext
  /\ StationCalled =>
       /\ DOMAIN meteostat = {"time", "ws", "wpgt", "prcp", "available", "size"}
       /\ meteostat.available <=> meteostat.size > 0
       /\ Len(meteostat.time) = meteostat.size
       /\ Len(meteostat.ws) = meteostat.size
       /\ Len(meteostat.wpgt) = meteostat.size
       /\ Len(meteostat.prcp) = meteostat.size
       /\ (Failed(upstream.point) /\ Failed(upstream.nearby)) =>
            meteostat = [time |-> << >>, ws |-> << >>, wpgt |-> << >>,
                         prcp |-> << >>, available |-> FALSE, size |-> 0]
  /\ OpenCalled =>
       /\ DOMAIN openmeteo = {"url", "available", "items", "utc_offset_seconds",
                              "size", "usedArchiveFallback"}
       /\ openmeteo.available <=> openmeteo.size > 0
       /\ Len(openmeteo.items) = openmeteo.size
       /\ (Failed(upstream.primary)
           /\ (upstream.primary.kind = "httpError" => Failed(upstream.archive))) =>
            /\ ~openmeteo.available /\ openmeteo.items = << >>
            /\ openmeteo.size = 0

\* every request of the station fetcher failed: the point query with an
\* HTTP error, the nearby query with a body that is not JSON
C21_Witness ==
  /\ StationCalled
  /\ upstream.point.kind = "httpError" /\ upstream.nearby.kind = "badJson"
  /\ ~meteostat.available /\ meteostat.size = 0
  /\ calls["point"] = 1 /\ calls["nearby"] = 1

\* the first endpoint answered, with no hour common to its four arrays
PrimaryReturnedNoRows ==
  upstream.primary.kind # "throws" /\ HourlyLen(upstream.primary) = 0

\* C22: in fetchOpenMeteoHourly the archive endpoint is queried if and only
\* if the primary endpoint returned zero aligned rows, and at most once;
\* usedArchiveFallback is true if and only if the archive was queried, and
\* the url returned is that of the endpoint last queried.
C22_ArchiveIffNoRows ==
  OpenCalled =>
    /\ calls["era5"] = 1 /\ calls["archive"] <= 1
    /\ calls["archive"] = 1 <=> PrimaryReturnedNoRows
    /\ openmeteo.usedArchiveFallback <=> calls["archive"] = 1
    /\ openmeteo.url = IF calls["archive"] = 1 THEN "archive" ELSE "era5"

\* C22 (amended): the archive endpoint is queried, once, if and only if
\* the primary endpoint answered with a non-2xx status or with a JSON body
\* without aligned rows; after an exception of the first fetch or a body
\* that is not JSON nothing more is queried.  usedArchiveFallback and url
\* are as claimed.
C22_ArchiveAfterStatusOrEmptyBody ==
  OpenCalled =>
    /\ calls["era5"] = 1 /\ calls["archive"] <= 1
    /\ calls["archive"] = 1 <=>
         /\ upstream.primary.kind \in {"httpError", "json"}
         /\ HourlyLen(upstream.primary) = 0
    /\ openmeteo.usedArchiveFallback <=> calls["archive"] = 1
    /\ openmeteo.url = IF calls["archive"] = 1 THEN "archive" ELSE "era5"

\* the primary endpoint answered 5xx, the archive gave rows
C22_Witness ==
  /\ OpenCalled
  /\ upstream.primary.kind = "httpError" /\ HourlyLen(upstream.archive) > 0
  /\ calls["archive"] = 1 /\ openmeteo.usedArchiveFallback
  /\ openmeteo.url = "archive" /\ openmeteo.available

\* the answer the items of the result were made from
AnswerUsed ==
  IF openmeteo.usedArchiveFallback THEN upstream.archive ELSE upstream.primary

\* what the claim lets the sanitiser give for an element
SanitisedAsClaimed(v) == IF v.k = "num" THEN v ELSE Null

\* C23: the reanalysis sanitiser maps every element that is null, undefined,
\* non-finite or unparseable as a number, an empty or blank string
\* included, to null, never to NaN and never to 0, maps every finite number
\* to itself, and gives an output of exactly the requested length.
C23_SanitiseToNull ==
  (OpenCalled /\ openmeteo.available) =>
    /\ Len(openmeteo.items) = HourlyLen(AnswerUsed)
    /\ \A i \in DOMAIN openmeteo.items :
         /\ openmeteo.items[i].wind_kmh = SanitisedAsClaimed(AnswerUsed.wspd[i])
         /\ openmeteo.items[i].gust_kmh = SanitisedAsClaimed(AnswerUsed.wgst[i])
         /\ openmeteo.items[i].precip_mm = SanitisedAsClaimed(AnswerUsed.prcp[i])

\* the stations of the nearby answer within 50 km, as listed
ListedWithin50 ==
  IF upstream.nearby.kind = "json"
    THEN SelectSeq(upstream.nearby.stations, Within50)
    ELSE << >>

\* the rows a station answered with
RowsOf(st) == IF st.hourly.kind = "json" THEN st.hourly.data ELSE << >>

\* the time strings of the rows of the stations within 50 km
HoursSupplied ==
  UNION { {RowsOf(ListedWithin50[i])[j].time : j \in DOMAIN RowsOf(ListedWithin50[i])} :
            i \in DOMAIN ListedWithin50 }

\* station i supplies a non-null value of the field at the time ts
Supplies(i, ts, field) ==
  \E j \in DOMAIN RowsOf(ListedWithin50[i]) :
    /\ RowsOf(ListedWithin50[i])[j].time = ts
    /\ NotNull(RowsOf(ListedWithin50[i])[j][field])

ValueSupplied(i, ts, field) ==
  LET rows == RowsOf(ListedWithin50[i])
      j == CHOOSE k \in DOMAIN rows :
             /\ rows[k].time = ts /\ NotNull(rows[k][field])
             /\ \A l \in DOMAIN rows :
                  (rows[l].time = ts /\ NotNull(rows[l][field])) => k <= l
  IN ToNumber(rows[j][field])

\* the value of the nearest station that supplies one, null if none does
NearestValue(ts, field) ==
  LET suppliers == {i \in DOMAIN ListedWithin50 : Supplies(i, ts, field)}
  IN IF suppliers = {} THEN Null
     ELSE ValueSupplied(
            CHOOSE i \in suppliers :
              \A k \in suppliers :
                \/ ListedWithin50[i].distance.v < ListedWithin50[k].distance.v
                \/ /\ ListedWithin50[i].distance.v = ListedWithin50[k].distance.v
                   /\ i <= k,
            ts, field)

\* the point query gave no usable value and no station's request threw
NearbyMerged ==
  /\ StationCalled
  /\ ~fetchMeteostatPointHourlyRaw(upstream.point).available
  /\ \A i \in DOMAIN ListedWithin50 : ListedWithin50[i].hourly.kind # "throws"

\* C24: when the point query returns no usable value, the nearby fallback
\* considers only stations within 50 km and, for each hour and each field,
\* the merged series holds the value of the nearest station that supplies
\* a non-null value for that field at that hour, and null if none does,
\* in whatever order the upstream lists the stations.
C24_NearestStationFirst ==
  NearbyMerged =>
    /\ Range(meteostat.time) = HoursSupplied
    /\ \A i \in DOMAIN meteostat.time :
         /\ meteostat.ws[i] = NearestValue(meteostat.time[i], "ws")
         /\ meteostat.wpgt[i] = NearestValue(meteostat.time[i], "wpgt")
         /\ meteostat.prcp[i] = NearestValue(meteostat.time[i], "prcp")


\* the point query gave no usable value and the nearby list was answered
NearbyTried ==
  /\ StationCalled
  /\ ~fetchMeteostatPointHourlyRaw(upstream.point).available
  /\ upstream.nearby.kind = "json"

\* C30: in the nearby fallback the failure of one station's request (an HTTP
\* error status, a network exception or a malformed body) does not discard
\* what the other stations within 50 km supplied: every hour one of them
\* answered is in the merged series.
C30_OneStationFailureKeepsOthers ==
  NearbyTried =>
    \A i \in DOMAIN ListedWithin50 :
      \A j \in DOMAIN RowsOf(ListedWithin50[i]) :
        \E k \in DOMAIN meteostat.time :
          meteostat.time[k] = RowsOf(ListedWithin50[i])[j].time


---------------------------------------------------------------------------
(* The historical thunder strategy, checked under Spec *)

\* the historical strategy has annotated merged
FlagsAnnotated ==
  /\ ~last24h
  /\ \/ pc \in {"GET.warnings", "GET.respond"}
     \/ pc = "GET.responded" /\ response.status = 200

\* C25: in the historical strategy the secondary METAR archive is queried if
\* and only if the primary archive returned zero usable reports, after the
\* primary and at most once; the evidence of every entry is tagged with the
\* secondary archive if it was queried and with the primary otherwise, and
\* an hour for which the consulted archive has no report has the flag null.
C25_SecondaryIffNoReports ==
  /\ [](/\ calls["ogimet"] <= 1 /\ calls["noaa"] <= 1
        /\ calls["noaa"] = 1 => calls["ogimet"] = 1
        /\ pc = "GET.thunder.noaa" => calls["ogimet"] = 1 /\ entries = << >>)
  /\ [][(pc = "GET.thunder.ogimet" /\ pc' # pc) =>
          /\ calls'["ogimet"] = 1 /\ calls'["noaa"] = 0
          /\ pc' \in {"GET.thunder.noaa", "GET.warnings"}
          /\ pc' = "GET.thunder.noaa" <=> entries' = << >>]_vars
  /\ [][(pc = "GET.thunder.noaa" /\ pc' # pc) =>
          /\ calls'["noaa"] = 1 /\ calls'["ogimet"] = 1
          /\ pc' = "GET.warnings"]_vars
  /\ [](FlagsAnnotated =>
          /\ thunderUrls.noaa_adds = (calls["noaa"] = 1)
          /\ \A i \in DOMAIN merged :
               /\ merged[i].thunder.type = "flag"
               /\ merged[i].thunder.source =
                    IF calls["noaa"] = 1 THEN "noaa-adds" ELSE "ogimet"
               /\ merged[i].thunder.value =
                    IF timelineEpochs[i] \in DOMAIN byHour
                      THEN byHour[timelineEpochs[i]] ELSE "null")

\* a response whose flags come from the secondary archive, one hour with a
\* report and one without
C25_Witness ==
  /\ pc = "GET.responded" /\ response.status = 200
  /\ calls["ogimet"] = 1 /\ calls["noaa"] = 1
  /\ \E i, j \in DOMAIN response.series :
       /\ response.series[i].thunder.source = "noaa-adds"
       /\ response.series[i].thunder.value # "null"
       /\ response.series[j].thunder.value = "null"

---------------------------------------------------------------------------
(* SpecParse: metarHoursMap on one report, over the weather groups of a    *)
(* report, so that the map holds what parseMetarForThunder made of it      *)

\* thunderstorm groups in progress: plain, heavy and light with rain, with
\* hail, with snow, with rain and hail
InProgressGroups ==
  { <<"T", "S">>, <<"+", "T", "S", "R", "A">>, <<"-", "T", "S", "R", "A">>,
    <<"T", "S", "G", "R">>, <<"T", "S", "S", "N">>,
    <<"T", "S", "R", "A", "G", "R">> }

InVicinityGroup == <<"V", "C", "T", "S">>

WeatherGroups ==
  InProgressGroups \cup {InVicinityGroup, <<"R", "A">>, <<"B", "R">>}

\* reports of no, one or two weather groups
ParseSamples ==
  {<< >>} \cup WeatherGroups
    \cup {Words(<<a, b>>) : a \in WeatherGroups, b \in WeatherGroups}

ParseInit ==
  /\ pc = "metar.loop"
  /\ originDay = MetarDay
  /\ \E raw \in ParseSamples : entries = << [raw |-> raw, epochMs |-> 20 * 60000] >>
  /\ byHour = << >>
  /\ ei = 1
  /\ IdleMetarOthers

SpecParse == ParseInit /\ [][MetarNext]_vars

\* the report has the group as one of its blank-separated tokens
HasGroup(s, group) ==
  \E i \in DOMAIN s :
    /\ MatchAt(s, i, group)
    /\ i = 1 \/ s[i - 1] = " "
    /\ i + Len(group) > Len(s) \/ s[i + Len(group)] = " "

Classified(s) ==
  IF \E g \in InProgressGroups : HasGroup(s, g) THEN "TS"
  ELSE IF HasGroup(s, InVicinityGroup) THEN "VCTS"
  ELSE "null"

\* C26: parseMetarForThunder gives TS for a report with a thunderstorm group
\* in progress (TS, +TSRA, -TSRA, TSGR, TSSN, TSRAGR), also when VCTS is in
\* the same report, VCTS for a report with VCTS only and null for a report
\* with neither.
C26_ThunderGroupsClassified ==
  pc = "metar.done" =>
    /\ DOMAIN byHour = {0}
    /\ byHour[0] = Classified(entries[1].raw)


---------------------------------------------------------------------------
(* The hours of the Ogimet reports, checked under Spec *)

\* the instants of the interval at the day of the month, hour and minute of
\* the report's DDHHMMZ token
ObservedAt(raw) ==
  LET i == DayTimeTokenAt(raw)
  IN { x \in { DateUTC(CivilFromDays(D).y, CivilFromDays(D).m, CivilFromDays(D).d,
                       TwoDigits(raw, i + 3), TwoDigits(raw, i + 5)) :
                 D \in { E \in DayOf(intervalStartMs) .. DayOf(intervalEndMs) :
                           CivilFromDays(E).d = TwoDigits(raw, i + 1) } } :
         intervalStartMs <= x /\ x <= intervalEndMs }

\* the entries are those of the reports of the primary archive
OgimetBucketed ==
  /\ pc \in {"GET.warnings", "GET.respond", "GET.responded"}
  /\ thunderUrls.ogimet /\ ~thunderUrls.noaa_adds

\* C27: in the historical strategy with the primary archive, a report with a
\* DDHHMMZ token observed inside the interval is bucketed into the UTC hour
\* of its own observation time, for every interval, those that span a month
\* boundary included.
C27_ReportsInTheirOwnHour ==
  OgimetBucketed =>
    \A i \in DOMAIN entries :
      (DayTimeTokenAt(entries[i].raw) # 0 /\ ObservedAt(entries[i].raw) # {}) =>
        /\ entries[i].epochMs \in ObservedAt(entries[i].raw)
        /\ EpochHour(entries[i].epochMs) \in DOMAIN byHour


---------------------------------------------------------------------------
(* The reanalysis in the responses, checked under Spec *)

\* the value and the tag of one field of a record sent come from the
\* station series only
FromStationOnly(val, src, stationVal) ==
  /\ src \in {"meteostat", "null"}
  /\ src = "meteostat" <=> NotNull(stationVal)
  /\ NotNull(val) => NotNull(stationVal)

\* C28: the analysis endpoint never returns a reanalysis-sourced value: in
\* every response no record's wind, gust or precipitation source tag is
\* open-meteo, the merge being called with the reanalysis fallback disabled,
\* also when the reanalysis epochs are the timeline and the station series
\* is empty.
C28_NoReanalysisValue ==
  (pc = "GET.responded" /\ response.status = 200) =>
    \A i \in DOMAIN response.series :
      LET r == response.series[i]
          e == timelineEpochs[i]
      IN /\ FromStationOnly(r.wind_kmh, r.sources.wind, StationAt(meteostat.ws, e))
         /\ FromStationOnly(r.gust_kmh, r.sources.gust, StationAt(meteostat.wpgt, e))
         /\ FromStationOnly(r.precip_mm, r.sources.precip,
                            StationAt(meteostat.prcp, e))

\* a response on the reanalysis epochs, the station series empty and the
\* reanalysis holding a wind: no value is sent
C28_Witness ==
  /\ pc = "GET.responded" /\ response.status = 200
  /\ Len(openmeteo.items) > 0 /\ timelineEpochs = OpenEpochs
  /\ ~meteostat.available /\ meteostat.size = 0
  /\ \E i \in DOMAIN openmeteo.items : openmeteo.items[i].wind_kmh.k = "num"
  /\ \A i \in DOMAIN response.series :
       /\ response.series[i].wind_kmh = Null
       /\ response.series[i].sources.wind = "null"

---------------------------------------------------------------------------
(* Validation and the upstreams, checked under Spec *)

\* the request ended in a validation error
ValidationError == pc = "GET.responded" /\ response.status = 400

\* C29: a request that ends in a validation error (missing parameter,
\* unsupported resolution, invalid coordinates, invalid date format, start
\* date after end date) has issued no upstream call at all, the geocoding
\* call for a place name included.
C29_NoCallBeforeValidation ==
  ValidationError => (netCalls = 0 /\ \A u \in DOMAIN calls : calls[u] = 0)
===========================================================================
